---------------------------- MODULE Spec2Model ----------------------------
(***************************************************************************)
(* Work-stealing scheduler of MultiPlatformExtractor                       *)
(* (src/multi_platform_extractor.py): _work_stealing_main, _worker and     *)
(* extract_keywords_single_platform, run by one asyncio event loop.        *)
(*                                                                         *)
(* asyncio is cooperative: a coroutine runs until it really suspends (the  *)
(* provider call, a sleep, queue.join, gather).  `running` names the       *)
(* coroutine that holds the event loop; 0 means the loop is free to resume *)
(* any coroutine whose awaited event has happened.                         *)
(*                                                                         *)
(* The module also holds the exclusion tracker and the response parser of  *)
(* BaseKeywordExtractor (src/base_extractor.py): update_exclusion_queue    *)
(* with the list the prompts read, and _parse_keywords_response from the   *)
(* decoded JSON value to the returned records.  ParserSpec starts from the *)
(* value json.loads returns, TextSpec from the response text with the      *)
(* slice and the two repairs, CleanerSpec applies _clean_keyword to one    *)
(* entry, and LockSpec takes the two `async with` blocks of _worker step   *)
(* by step.                                                                *)
(***************************************************************************)
EXTENDS Integers, Sequences, FiniteSets, TLC

\* ---- bounds ----
MaxItems == 2
MaxProviders == 2
MaxRecords == 2        \* update_exclusion_queue calls explored on one tracker
MaxBatch == 2          \* keywords in one explored call
MaxNear == 2           \* keywords one occurrence short of the threshold at the start
MaxEntries == 10       \* entries of the `keywords` array of an explored response
MaxObjects == 4        \* entries of an explored response text with a flaw
MaxKeywordLen == 4     \* characters of an explored keyword

\* ---- constants of the modelled inputs ----
AllPlatforms == 1..MaxProviders          \* candidate platform ids
NoTask == [model_info |-> 0, retry_count |-> 0]
\* extract_keywords_single_platform returns None or (platform_id, keywords);
\* keywords is the list of records the parser returned, each kept as the id of
\* its keyword
NoneResult == [is_none |-> TRUE, keywords |-> << >>]
TupleResult(kws) == [is_none |-> FALSE, keywords |-> kws]

\* A provider's answer to one call: text whose parse yields the records `parsed`,
\* or an exception, whose message may name a rate limit (429/503/...).
Responses ==
    { [kind |-> "text", parsed |-> << >>, rate_limited |-> FALSE],
      [kind |-> "text", parsed |-> << 1, 2, 3, 4, 5 >>, rate_limited |-> FALSE],
      [kind |-> "error", parsed |-> << >>, rate_limited |-> FALSE],
      [kind |-> "error", parsed |-> << >>, rate_limited |-> TRUE] }

\* What a provider may answer under its mode (the scenario of an end-to-end run).
AllowedResponses(mode) ==
    CASE mode = "parse_fail" -> { r \in Responses : r.kind = "text" /\ r.parsed = << >> }
      [] mode = "ok5"        -> { r \in Responses : r.kind = "text" /\ Len(r.parsed) = 5 }
      [] OTHER               -> Responses

VARIABLES
    model_infos,           \* the submitted items: model_infos[i].url_ok = url is a str
    platforms,             \* ids of the enabled platforms
    provider_mode,         \* how each provider answers
    mainPc,                \* position of _work_stealing_main
    running,               \* coroutine holding the event loop, 0 = none
    queue,                 \* asyncio.Queue: items, _unfinished_tasks, join waiter released
    results,               \* shared result list
    completed_count,       \* completed_count[0]
    returned,              \* value returned by _work_stealing_main
    pc,                    \* position of each _worker
    task,                  \* (model_info, retry_count) held by each worker
    result,                \* value of `result` in _worker
    consecutive_failures,  \* per worker
    attempts,              \* history: calls of extract_keywords_single_platform per item
    failed,                \* history: failed attempts per item
    terminal,              \* history: acknowledgments without re-enqueue per item
    outcome,               \* history: "none" | "accepted" | "dropped" | "raised"
    served_by,             \* history: platform whose attempt was accepted, 0 = none
    attempt_kind,          \* history: what the last provider call of a worker was
    keyword_frequency,     \* self.keyword_frequency: (keyword, count) in insertion order
    excluded_keywords,     \* self.excluded_keywords
    prompt_exclusions,     \* the exclusion list in the last prompt each worker built
    frequency_at_start,    \* history: keyword_frequency when the run began
    first_reached,         \* history: keywords whose count reached 10, with the call
    record_calls,          \* history: calls of update_exclusion_queue
    response,              \* the response handed to _parse_keywords_response
    parse_outcome,         \* what that call did: returned value or raised exception
    response_text,         \* the response as text, a sequence of tokens
    keyword_obj,           \* the entry handed to _clean_keyword
    cleaned,               \* what that call returned
    lock,                  \* `lock` of _work_stealing_main: the worker holding it, 0 = free
    progress_lock,         \* `progress_lock`: the worker holding it, 0 = free
    attempted_by,          \* history: the platforms that attempted each item
    delay,                 \* `delay` of _worker, in tenths of a second, 0 = never slept
    attempt,               \* `attempt` of KeywordExtractor.extract_keywords
    error_message,         \* `error_message` of its except block
    extracted,             \* what it returned: "pending" | "None" | "KeywordResult"
    calls,                 \* history: provider calls it made
    last_call,             \* history: what the last provider call did
    slept,                 \* history: the time.sleep durations it took, in seconds
    keyword_results,       \* the results handed to the report stage
    dedup_results,         \* what _csv_deduplicate_keywords returned
    csv_data               \* `csv_data` of generate_csv_output: the rows written

schedVars == << model_infos, platforms, provider_mode, mainPc, running, queue, results,
                completed_count, returned, pc, task, result, consecutive_failures,
                attempts, failed, terminal, outcome, served_by, attempt_kind >>

\* the exclusion tracker of the extractor object and what the prompts read from it
exclVars == << keyword_frequency, excluded_keywords, frequency_at_start,
               first_reached, record_calls >>
promptVars == << prompt_exclusions >>

\* the response parser, which the scheduler's steps above do not touch
\* the single-provider extractor (src/ai_extractor.py)
retryVars == << attempt, error_message, extracted, calls, last_call, slept >>

\* the report stage (src/keyword_extractor.py)
reportVars == << keyword_results, dedup_results, csv_data >>

offlineVars == << response, parse_outcome, response_text, keyword_obj, cleaned,
                 retryVars, reportVars >>

\* the two asyncio.Lock objects of a run (lines 334, 337)
lockVars == << lock, progress_lock >>

\* what the attempts of a run leave behind
attemptVars == << attempted_by, delay >>

vars == << schedVars, exclVars, promptVars, attemptVars, offlineVars, lockVars >>

Items == 1..Len(model_infos)
platform_count == Cardinality(platforms)

\* ---- asyncio.Queue as used by the scheduler ----
EmptyQueue == [items |-> << >>, unfinished |-> 0, released |-> FALSE]

\* queue.put on an unbounded queue: never suspends; one more unfinished unit
QueuePut(q, t) ==
    [q EXCEPT !.items = Append(@, t), !.unfinished = @ + 1]

\* queue.get_nowait on a non-empty queue
QueueGetKeep(q) == q
QueueGet(q) == [q EXCEPT !.items = Tail(@)]

\* queue.task_done: ValueError (swallowed by the caller) when nothing is unfinished;
\* reaching zero sets the event that releases the coroutine waiting in join()
TaskDoneLost(q) == q
TaskDone(q) ==
    IF q.unfinished = 0 THEN q
    ELSE [q EXCEPT !.unfinished = @ - 1, !.released = @ \/ (q.unfinished = 1)]

\* lines 459-471: the retry bound of a failed attempt
RetryAllowedOff(retry_count, max_retries) == retry_count < max_retries
RetryAllowed(retry_count, max_retries) == retry_count < max_retries - 1

\* lines 461-462: re-enqueue with retry_count + 1, then acknowledge the attempt
RequeueAckFirst(q, t) ==
    QueuePut(TaskDone(q), [t EXCEPT !.retry_count = @ + 1])
Requeue(q, t) ==
    TaskDone(QueuePut(q, [t EXCEPT !.retry_count = @ + 1]))

\* lines 221-231, 233-250: the value extract_keywords_single_platform returns
SinglePlatformResultNoCheck(resp) ==
    IF resp.kind = "text" THEN TupleResult(resp.parsed) ELSE NoneResult
SinglePlatformResult(resp) ==
    IF resp.kind = "text" /\ resp.parsed # << >> THEN TupleResult(resp.parsed)
    ELSE NoneResult

\* what one provider call was: text parsed to records, text parsed to nothing,
\* an exception, an exception naming a rate limit
AttemptKind(resp) ==
    IF resp.kind = "text"
    THEN (IF resp.parsed # << >> THEN "ok" ELSE "parse")
    ELSE (IF resp.rate_limited THEN "rate_limit" ELSE "error")

\* line 444: results.append(KeywordResult(model_url, keywords))
AppendResultSkip(rs, t, kws) == rs
AppendResult(rs, t, kws) ==
    Append(rs, [model_url |-> t.model_info, keywords |-> kws])

\* ---- exclusion tracker (src/base_extractor.py, update_exclusion_queue) ----
ExclusionThreshold == 10
ExclusionCap == 50

\* self.keyword_frequency.get(keyword, 0)
FrequencyGet(freq, kw) ==
    IF \E i \in DOMAIN freq : freq[i].keyword = kw
    THEN freq[CHOOSE i \in DOMAIN freq : freq[i].keyword = kw].count
    ELSE 0

\* line 26: keyword_frequency[keyword] = keyword_frequency.get(keyword, 0) + 1;
\* a dict keeps its keys in the order of their first insertion
RecordKeywordOnce(freq, kw) ==
    IF \E i \in DOMAIN freq : freq[i].keyword = kw THEN freq
    ELSE Append(freq, [keyword |-> kw, count |-> 1])
RecordKeyword(freq, kw) ==
    IF \E i \in DOMAIN freq : freq[i].keyword = kw
    THEN [freq EXCEPT ![CHOOSE i \in DOMAIN freq : freq[i].keyword = kw].count = @ + 1]
    ELSE Append(freq, [keyword |-> kw, count |-> 1])

\* lines 24-26: the loop over the records of one result
RECURSIVE RecordAll(_, _)
RecordAll(freq, keywords) ==
    IF keywords = << >> THEN freq
    ELSE RecordAll(RecordKeyword(freq, Head(keywords)), Tail(keywords))

\* lines 29-32: the keys whose count is at least 10, in dict order
HighFreqAbove(freq) == SelectSeq(freq, LAMBDA e : e.count > ExclusionThreshold)
HighFreq(freq) == SelectSeq(freq, LAMBDA e : e.count >= ExclusionThreshold)

\* list.sort(key=count, reverse=True) is stable: the entries of one count keep
\* the order they had in the list, and larger counts come first
SameCountReversed(entries, c) ==
    LET same == SelectSeq(entries, LAMBDA e : e.count = c)
    IN  [i \in 1..Len(same) |-> same[Len(same) + 1 - i]]
SameCount(entries, c) == SelectSeq(entries, LAMBDA e : e.count = c)

RECURSIVE SortFrom(_, _, _)
SortFrom(entries, c, lowest) ==
    IF c < lowest THEN << >>
    ELSE SameCount(entries, c) \o SortFrom(entries, c - 1, lowest)

\* lines 35-38
SortByCountNone(entries) == entries
SortByCount(entries) ==
    IF entries = << >> THEN << >>
    ELSE LET counts == { entries[i].count : i \in DOMAIN entries }
             highest == CHOOSE c \in counts : \A x \in counts : x <= c
             lowest == CHOOSE c \in counts : \A x \in counts : c <= x
         IN  SortFrom(entries, highest, lowest)

\* line 39: high_freq_keywords[:50]
FirstAll(s, n) == s
First(s, n) == SubSeq(s, 1, IF Len(s) < n THEN Len(s) ELSE n)

\* lines 29-39: the list derived from the counts
ExclusionView(freq) ==
    LET kept == First(SortByCount(HighFreq(freq)), ExclusionCap)
    IN  [i \in DOMAIN kept |-> kept[i].keyword]

\* lines 21-39: the counts and the list after update_exclusion_queue(keywords)
UpdateCountsOnly(freq, excluded, keywords) ==
    [frequency |-> RecordAll(freq, keywords), excluded |-> excluded]
UpdateExclusionQueue(freq, excluded, keywords) ==
    [frequency |-> RecordAll(freq, keywords),
     excluded |-> ExclusionView(RecordAll(freq, keywords))]

\* build_prompt lines 191-204: the exclusion list the prompt embeds
PromptExclusionsNone(excluded) == << >>
PromptExclusions(excluded) == First(excluded, ExclusionCap)

\* keywords whose count goes from below 10 to at least 10 in one call, in the
\* order in which the call reaches them
RECURSIVE NewlyReached(_, _)
NewlyReached(freq, keywords) ==
    IF keywords = << >> THEN << >>
    ELSE LET kw == Head(keywords)
             now == RecordKeyword(freq, kw)
         IN  (IF FrequencyGet(freq, kw) < ExclusionThreshold
                 /\ FrequencyGet(now, kw) >= ExclusionThreshold
              THEN << kw >> ELSE << >>) \o NewlyReached(now, Tail(keywords))

\* one call of update_exclusion_queue on the extractor object
Recorded(keywords) ==
    /\ keyword_frequency' =
           UpdateExclusionQueue(keyword_frequency, excluded_keywords, keywords).frequency
    /\ excluded_keywords' =
           UpdateExclusionQueue(keyword_frequency, excluded_keywords, keywords).excluded
    /\ first_reached' = first_reached \o
           [i \in DOMAIN NewlyReached(keyword_frequency, keywords) |->
               [keyword |-> NewlyReached(keyword_frequency, keywords)[i],
                call |-> record_calls + 1]]
    /\ record_calls' = record_calls + 1
    /\ UNCHANGED frequency_at_start

\* lines 329-330: one (model_info, 0) per submitted item, in order
RECURSIVE SubmitAll(_, _, _)
SubmitAll(q, i, n) ==
    IF i > n THEN q
    ELSE SubmitAll(QueuePut(q, [model_info |-> i, retry_count |-> 0]), i + 1, n)

\* worker.cancel() for every worker (lines 357-358): a finished worker stays finished
CancelAll(pcs) ==
    [w \in AllPlatforms |->
        IF pcs[w] \in {"none", "done"} THEN pcs[w] ELSE "cancelled"]

\* ---- initial states: the inputs of one run ----
ItemLists ==
    UNION { [1..n -> [url_ok : BOOLEAN]] : n \in 0..MaxItems }

\* asyncio.Lock() is created unlocked
Unlocked == 0

InitRun ==
    /\ mainPc = "start"
    /\ running = 0
    /\ queue = EmptyQueue
    /\ results = << >>
    /\ completed_count = 0
    /\ returned = << >>
    /\ pc = [w \in AllPlatforms |-> "none"]
    /\ task = [w \in AllPlatforms |-> NoTask]
    /\ result = [w \in AllPlatforms |-> NoneResult]
    /\ consecutive_failures = [w \in AllPlatforms |-> 0]
    /\ attempts = [i \in Items |-> 0]
    /\ failed = [i \in Items |-> 0]
    /\ terminal = [i \in Items |-> 0]
    /\ outcome = [i \in Items |-> "none"]
    /\ served_by = [i \in Items |-> 0]
    /\ attempt_kind = [w \in AllPlatforms |-> "none"]
    /\ prompt_exclusions = [w \in AllPlatforms |-> << >>]
    /\ lock = Unlocked
    /\ progress_lock = Unlocked
    /\ attempted_by = [i \in Items |-> {}]
    /\ delay = [w \in AllPlatforms |-> 0]

\* BaseKeywordExtractor.__init__ (lines 16-19): nothing counted, nothing excluded
InitTracker ==
    /\ keyword_frequency = << >>
    /\ excluded_keywords = << >>
    /\ frequency_at_start = << >>
    /\ first_reached = << >>
    /\ record_calls = 0

\* a response that is no JSON; JSON data that is no object
NoData == [type |-> "other", keywords |-> [type |-> "null", items |-> << >>]]
NoResponse == [loads |-> "JSONDecodeError", data |-> NoData]
NotParsed == [called |-> FALSE, raised |-> "none", value |-> << >>]

\* no response text is at hand
InitTextIdle == response_text = << >>

\* no entry is being cleaned
NoKeywordObj ==
    [type |-> "null",
     keyword |-> [type |-> "absent", text |-> << >>],
     dimension |-> [type |-> "absent", text |-> << >>],
     reason |-> [type |-> "absent", text |-> << >>]]
NotCleaned == [called |-> FALSE, keyword |-> << >>, dimension |-> << >>, reason |-> << >>]
InitCleanerIdle ==
    /\ keyword_obj = NoKeywordObj
    /\ cleaned = NotCleaned

\* extract_keywords of the single-provider extractor has not been called
InitRetry ==
    /\ attempt = 0
    /\ error_message = << >>
    /\ extracted = "pending"
    /\ calls = 0
    /\ last_call = [kind |-> "none", message |-> << >>]
    /\ slept = << >>

\* nothing has been handed to the report stage
NotReported == [called |-> FALSE, value |-> << >>]
InitReportIdle ==
    /\ keyword_results = << >>
    /\ dedup_results = NotReported
    /\ csv_data = NotReported

\* the other components of the pipeline are idle
InitPipelineIdle == InitRetry /\ InitReportIdle

\* no response is being parsed
InitParserIdle ==
    /\ response = NoResponse
    /\ parse_outcome = NotParsed
    /\ InitTextIdle
    /\ InitCleanerIdle

Init ==
    /\ model_infos \in ItemLists
    /\ platforms \in { 1..p : p \in 0..MaxProviders }
    /\ provider_mode = [w \in AllPlatforms |-> "any"]
    /\ InitRun
    /\ InitPipelineIdle
    /\ InitTracker
    /\ InitParserIdle

\* ---- the streak delay of _worker ----
\* line 424: the worker sleeps before the attempt when its streak is above 2
StreakDelaysFrom2(streak) == streak >= 2
StreakDelays(streak) == streak > 2

\* line 425: delay = min(consecutive_failures * 0.5, 3.0), in tenths of a second
StreakDelayUncapped(streak) == streak * 5
StreakDelay(streak) == IF streak * 5 < 30 THEN streak * 5 ELSE 30

\* ---- _work_stealing_main ----
\* line 321: no enabled platform
NoPlatformsNever(n) == FALSE
NoPlatforms(n) == n = 0

\* lines 310-354: count the platforms, fill the queue, create the workers, reach join()
MainStart ==
    /\ mainPc = "start"
    /\ running = 0
    /\ IF NoPlatforms(platform_count)
       THEN /\ mainPc' = "returned"
            /\ returned' = << >>
            /\ UNCHANGED << queue, pc >>
       ELSE /\ queue' = SubmitAll(EmptyQueue, 1, Len(model_infos))
            /\ returned' = returned
            /\ IF Len(model_infos) = 0
               THEN /\ mainPc' = "gather"
                    /\ pc' = CancelAll([w \in AllPlatforms |->
                                 IF w \in platforms THEN "created" ELSE "none"])
               ELSE /\ mainPc' = "join"
                    /\ pc' = [w \in AllPlatforms |->
                                 IF w \in platforms THEN "created" ELSE "none"]
    /\ UNCHANGED << model_infos, platforms, provider_mode, running, results,
                    completed_count, task, result, consecutive_failures,
                    attempts, failed, terminal, outcome, served_by, attempt_kind >>
    /\ UNCHANGED << exclVars, promptVars, attemptVars, offlineVars, lockVars >>

\* lines 354-362: join() is released, every worker is cancelled, gather() is awaited
MainWake ==
    /\ mainPc = "join"
    /\ running = 0
    /\ queue.released
    /\ mainPc' = "gather"
    /\ pc' = CancelAll(pc)
    /\ UNCHANGED << model_infos, platforms, provider_mode, running, queue, results,
                    completed_count, returned, task, result, consecutive_failures,
                    attempts, failed, terminal, outcome, served_by, attempt_kind >>
    /\ UNCHANGED << exclVars, promptVars, attemptVars, offlineVars, lockVars >>

\* lines 362-371: every worker has ended, the shared list is returned
MainReturn ==
    /\ mainPc = "gather"
    /\ running = 0
    /\ \A w \in platforms : pc[w] \in {"done", "cancelled"}
    /\ mainPc' = "returned"
    /\ returned' = results
    /\ UNCHANGED << model_infos, platforms, provider_mode, running, queue, results,
                    completed_count, pc, task, result, consecutive_failures,
                    attempts, failed, terminal, outcome, served_by, attempt_kind >>
    /\ UNCHANGED << exclVars, promptVars, attemptVars, offlineVars, lockVars >>

\* ---- _worker(platform_id = w) ----
\* lines 342-346, 412-419: the created task gets the event loop for the first
\* time; the loop starts tasks in the order of their creation
WorkerStart(w) ==
    /\ pc[w] = "created"
    /\ running = 0
    /\ \A v \in platforms : v < w => pc[v] # "created"
    /\ pc' = [pc EXCEPT ![w] = "get"]
    /\ running' = w
    /\ UNCHANGED << model_infos, platforms, provider_mode, mainPc, queue, results,
                    completed_count, returned, task, result, consecutive_failures,
                    attempts, failed, terminal, outcome, served_by, attempt_kind >>
    /\ UNCHANGED << exclVars, promptVars, attemptVars, offlineVars, lockVars >>

\* lines 419-428, 473-475, 485: get_nowait; QueueEmpty ends the worker;
\* a streak above 2 sleeps before the attempt
GetNowait(w) ==
    /\ pc[w] = "get"
    /\ running = w
    /\ IF queue.items = << >>
       THEN /\ pc' = [pc EXCEPT ![w] = "done"]
            /\ running' = 0
            /\ UNCHANGED << queue, task, delay >>
       ELSE /\ task' = [task EXCEPT ![w] = Head(queue.items)]
            /\ queue' = QueueGet(queue)
            /\ IF StreakDelays(consecutive_failures[w])
               THEN /\ delay' = [delay EXCEPT ![w] = StreakDelay(consecutive_failures[w])]
                    /\ pc' = [pc EXCEPT ![w] = "delay"]
                    /\ running' = 0
               ELSE /\ delay' = delay
                    /\ pc' = [pc EXCEPT ![w] = "extract"]
                    /\ running' = w
    /\ UNCHANGED << model_infos, platforms, provider_mode, mainPc, results,
                    completed_count, returned, result, consecutive_failures,
                    attempts, failed, terminal, outcome, served_by, attempt_kind >>
    /\ UNCHANGED << exclVars, promptVars, offlineVars, lockVars, attempted_by >>

\* line 428: the streak delay is over
DelayDone(w) ==
    /\ pc[w] = "delay"
    /\ running = 0
    /\ pc' = [pc EXCEPT ![w] = "extract"]
    /\ running' = w
    /\ UNCHANGED << model_infos, platforms, provider_mode, mainPc, queue, results,
                    completed_count, returned, task, result, consecutive_failures,
                    attempts, failed, terminal, outcome, served_by, attempt_kind >>
    /\ UNCHANGED << exclVars, promptVars, attemptVars, offlineVars, lockVars >>

\* lines 431, 160-196: enter extract_keywords_single_platform; line 174 is outside
\* the try block and raises for a url that is not a str; otherwise the prompt is
\* built from the current exclusion list (line 180) and the provider call is
\* awaited
ExtractBegin(w) ==
    /\ pc[w] = "extract"
    /\ running = w
    /\ attempts' = [attempts EXCEPT ![task[w].model_info] = @ + 1]
    /\ attempted_by' = [attempted_by EXCEPT ![task[w].model_info] = @ \cup {w}]
    /\ IF model_infos[task[w].model_info].url_ok
       THEN /\ pc' = [pc EXCEPT ![w] = "call"]
            /\ running' = 0
            /\ prompt_exclusions' =
                   [prompt_exclusions EXCEPT ![w] = PromptExclusions(excluded_keywords)]
       ELSE /\ pc' = [pc EXCEPT ![w] = "except"]
            /\ running' = w
            /\ UNCHANGED promptVars
    /\ UNCHANGED << model_infos, platforms, provider_mode, mainPc, queue, results,
                    completed_count, returned, task, result, consecutive_failures,
                    failed, terminal, outcome, served_by, attempt_kind >>
    /\ UNCHANGED << exclVars, offlineVars, lockVars, delay >>

\* lines 233-248: the except block sleeps when the message of the exception
\* names a rate limit (429, 503, rate_limit, too busy)
PausesOnAnyError(resp) == resp.kind = "error"
Pauses(resp) == resp.kind = "error" /\ resp.rate_limited

\* lines 196-250: the provider call ends; text is parsed, an exception is caught
\* and a rate-limit message sleeps before None is returned
CallReturns(w, resp) ==
    /\ pc[w] = "call"
    /\ running = 0
    /\ resp \in AllowedResponses(provider_mode[w])
    /\ result' = [result EXCEPT ![w] = SinglePlatformResult(resp)]
    /\ attempt_kind' = [attempt_kind EXCEPT ![w] = AttemptKind(resp)]
    /\ IF Pauses(resp)
       THEN /\ pc' = [pc EXCEPT ![w] = "backoff"]
            /\ running' = 0
       ELSE /\ running' = w
            /\ IF SinglePlatformResult(resp).is_none
               THEN pc' = [pc EXCEPT ![w] = "failure"]
               ELSE pc' = [pc EXCEPT ![w] = "success"]
    /\ UNCHANGED << model_infos, platforms, provider_mode, mainPc, queue, results,
                    completed_count, returned, task, consecutive_failures,
                    attempts, failed, terminal, outcome, served_by >>
    /\ UNCHANGED << exclVars, promptVars, attemptVars, offlineVars, lockVars >>

\* lines 248-250: the rate-limit sleep is over, None is returned
BackoffDone(w) ==
    /\ pc[w] = "backoff"
    /\ running = 0
    /\ pc' = [pc EXCEPT ![w] = "failure"]
    /\ running' = w
    /\ UNCHANGED << model_infos, platforms, provider_mode, mainPc, queue, results,
                    completed_count, returned, task, result, consecutive_failures,
                    attempts, failed, terminal, outcome, served_by, attempt_kind >>
    /\ UNCHANGED << exclVars, promptVars, attemptVars, offlineVars, lockVars >>

\* lines 433-453: reset the streak, append the result and update the exclusion
\* queue with its keywords (lines 443-446), count it, acknowledge
Success(w) ==
    /\ pc[w] = "success"
    /\ running = w
    /\ consecutive_failures' = [consecutive_failures EXCEPT ![w] = 0]
    /\ results' = AppendResult(results, task[w], result[w].keywords)
    /\ completed_count' = completed_count + 1
    /\ queue' = TaskDone(queue)
    /\ terminal' = [terminal EXCEPT ![task[w].model_info] = @ + 1]
    /\ outcome' = [outcome EXCEPT ![task[w].model_info] = "accepted"]
    /\ served_by' = [served_by EXCEPT ![task[w].model_info] = w]
    /\ task' = [task EXCEPT ![w] = NoTask]
    /\ result' = [result EXCEPT ![w] = NoneResult]
    /\ pc' = [pc EXCEPT ![w] = "get"]
    /\ UNCHANGED << model_infos, platforms, provider_mode, mainPc, running, returned,
                    attempts, failed, attempt_kind >>
    /\ Recorded(result[w].keywords)
    /\ UNCHANGED << promptVars, attemptVars, offlineVars, lockVars >>

\* lines 454-471: extend the streak; re-enqueue below the bound, else count and drop
Failure(w) ==
    /\ pc[w] = "failure"
    /\ running = w
    /\ consecutive_failures' = [consecutive_failures EXCEPT ![w] = @ + 1]
    /\ failed' = [failed EXCEPT ![task[w].model_info] = @ + 1]
    /\ IF RetryAllowed(task[w].retry_count, platform_count)
       THEN /\ queue' = Requeue(queue, task[w])
            /\ UNCHANGED << completed_count, terminal, outcome >>
       ELSE /\ completed_count' = completed_count + 1
            /\ queue' = TaskDone(queue)
            /\ terminal' = [terminal EXCEPT ![task[w].model_info] = @ + 1]
            /\ outcome' = [outcome EXCEPT ![task[w].model_info] = "dropped"]
    /\ task' = [task EXCEPT ![w] = NoTask]
    /\ pc' = [pc EXCEPT ![w] = "get"]
    /\ UNCHANGED << model_infos, platforms, provider_mode, mainPc, running, results,
                    returned, result, attempts, served_by, attempt_kind >>
    /\ UNCHANGED << exclVars, promptVars, attemptVars, offlineVars, lockVars >>

\* lines 476-483: an exception of the attempt: extend the streak and acknowledge;
\* the task is neither re-enqueued nor counted
ExceptHandler(w) ==
    /\ pc[w] = "except"
    /\ running = w
    /\ consecutive_failures' = [consecutive_failures EXCEPT ![w] = @ + 1]
    /\ failed' = [failed EXCEPT ![task[w].model_info] = @ + 1]
    /\ queue' = TaskDone(queue)
    /\ terminal' = [terminal EXCEPT ![task[w].model_info] = @ + 1]
    /\ outcome' = [outcome EXCEPT ![task[w].model_info] = "raised"]
    /\ task' = [task EXCEPT ![w] = NoTask]
    /\ pc' = [pc EXCEPT ![w] = "get"]
    /\ UNCHANGED << model_infos, platforms, provider_mode, mainPc, running, results,
                    completed_count, returned, result, attempts, served_by, attempt_kind >>
    /\ UNCHANGED << exclVars, promptVars, attemptVars, offlineVars, lockVars >>

WorkerStep(w) ==
    \/ WorkerStart(w)
    \/ GetNowait(w)
    \/ DelayDone(w)
    \/ ExtractBegin(w)
    \/ \E resp \in Responses : CallReturns(w, resp)
    \/ BackoffDone(w)
    \/ Success(w)
    \/ Failure(w)
    \/ ExceptHandler(w)

MainStep == MainStart \/ MainWake \/ MainReturn

Next == MainStep \/ \E w \in AllPlatforms : WorkerStep(w)

Spec == Init /\ [][Next]_vars

\* The event loop resumes every coroutine whose awaited event has happened, and
\* every provider call and sleep returns.
Fairness ==
    /\ WF_vars(MainStep)
    /\ \A w \in AllPlatforms : WF_vars(WorkerStep(w))

FairSpec == Spec /\ Fairness

\* ---- the worker with its two `async with` blocks taken step by step ----
\* Lock.release: the lock is free again
ReleaseKept(holder) == holder
Release(holder) == Unlocked

\* Lock.acquire on a free lock: the caller holds it
AcquireSkipped(holder, w) == holder
Acquire(holder, w) == w

\* lines 433-443: reset the streak and enter `async with lock`: Lock.acquire
\* takes a free lock without suspending, and suspends the worker until the
\* lock is free otherwise
AcquireLock(w) ==
    /\ pc[w] \in {"success", "wait_lock"}
    /\ IF pc[w] = "success" THEN running = w ELSE running = 0 /\ lock = Unlocked
    /\ consecutive_failures' = [consecutive_failures EXCEPT ![w] = 0]
    /\ IF lock = Unlocked
       THEN lock' = Acquire(lock, w) /\ pc' = [pc EXCEPT ![w] = "locked"] /\ running' = w
       ELSE UNCHANGED lock /\ pc' = [pc EXCEPT ![w] = "wait_lock"] /\ running' = 0
    /\ UNCHANGED << model_infos, platforms, provider_mode, mainPc, queue, results,
                    completed_count, returned, task, result, attempts, failed,
                    terminal, outcome, served_by, attempt_kind >>
    /\ UNCHANGED << exclVars, promptVars, attemptVars, offlineVars, progress_lock >>

\* lines 444-446: append the result, update the exclusion queue, leave the block
AppendUnderLock(w) ==
    /\ pc[w] = "locked"
    /\ running = w
    /\ results' = AppendResult(results, task[w], result[w].keywords)
    /\ Recorded(result[w].keywords)
    /\ lock' = Release(lock)
    /\ pc' = [pc EXCEPT ![w] = "progress"]
    /\ UNCHANGED << model_infos, platforms, provider_mode, mainPc, running, queue,
                    completed_count, returned, task, result, consecutive_failures,
                    attempts, failed, terminal, outcome, served_by, attempt_kind >>
    /\ UNCHANGED << promptVars, attemptVars, offlineVars, progress_lock >>

\* lines 454-465: extend the streak; re-enqueue below the bound, else go on to
\* count the dropped item
FailureBegin(w) ==
    /\ pc[w] = "failure"
    /\ running = w
    /\ consecutive_failures' = [consecutive_failures EXCEPT ![w] = @ + 1]
    /\ failed' = [failed EXCEPT ![task[w].model_info] = @ + 1]
    /\ IF RetryAllowed(task[w].retry_count, platform_count)
       THEN /\ queue' = Requeue(queue, task[w])
            /\ task' = [task EXCEPT ![w] = NoTask]
            /\ pc' = [pc EXCEPT ![w] = "get"]
       ELSE /\ pc' = [pc EXCEPT ![w] = "progress"]
            /\ UNCHANGED << queue, task >>
    /\ UNCHANGED << model_infos, platforms, provider_mode, mainPc, running, results,
                    completed_count, returned, result, attempts, terminal, outcome,
                    served_by, attempt_kind >>
    /\ UNCHANGED << exclVars, promptVars, attemptVars, offlineVars, lockVars >>

\* lines 449 and 467: enter `async with progress_lock`
AcquireProgress(w) ==
    /\ pc[w] \in {"progress", "wait_progress"}
    /\ IF pc[w] = "progress" THEN running = w ELSE running = 0 /\ progress_lock = Unlocked
    /\ IF progress_lock = Unlocked
       THEN progress_lock' = Acquire(progress_lock, w) /\ pc' = [pc EXCEPT ![w] = "counting"] /\ running' = w
       ELSE UNCHANGED progress_lock /\ pc' = [pc EXCEPT ![w] = "wait_progress"] /\ running' = 0
    /\ UNCHANGED << model_infos, platforms, provider_mode, mainPc, queue, results,
                    completed_count, returned, task, result, consecutive_failures,
                    attempts, failed, terminal, outcome, served_by, attempt_kind >>
    /\ UNCHANGED << exclVars, promptVars, attemptVars, offlineVars, lock >>

\* lines 450-453 and 468-471: count the item, leave the block, acknowledge
CountUnderLock(w) ==
    /\ pc[w] = "counting"
    /\ running = w
    /\ completed_count' = completed_count + 1
    /\ progress_lock' = Release(progress_lock)
    /\ queue' = TaskDone(queue)
    /\ terminal' = [terminal EXCEPT ![task[w].model_info] = @ + 1]
    /\ IF result[w].is_none
       THEN /\ outcome' = [outcome EXCEPT ![task[w].model_info] = "dropped"]
            /\ UNCHANGED served_by
       ELSE /\ outcome' = [outcome EXCEPT ![task[w].model_info] = "accepted"]
            /\ served_by' = [served_by EXCEPT ![task[w].model_info] = w]
    /\ task' = [task EXCEPT ![w] = NoTask]
    /\ result' = [result EXCEPT ![w] = NoneResult]
    /\ pc' = [pc EXCEPT ![w] = "get"]
    /\ UNCHANGED << model_infos, platforms, provider_mode, mainPc, running, results,
                    returned, consecutive_failures, attempts, failed, attempt_kind >>
    /\ UNCHANGED << exclVars, promptVars, attemptVars, offlineVars, lock >>

LockWorkerStep(w) ==
    \/ WorkerStart(w)
    \/ GetNowait(w)
    \/ DelayDone(w)
    \/ ExtractBegin(w)
    \/ \E resp \in Responses : CallReturns(w, resp)
    \/ BackoffDone(w)
    \/ AcquireLock(w)
    \/ AppendUnderLock(w)
    \/ FailureBegin(w)
    \/ AcquireProgress(w)
    \/ CountUnderLock(w)
    \/ ExceptHandler(w)

LockNext == MainStep \/ \E w \in AllPlatforms : LockWorkerStep(w)

LockSpec == Init /\ [][LockNext]_vars

TypeOK ==
    /\ mainPc \in {"start", "join", "gather", "returned"}
    /\ running \in {0} \cup AllPlatforms
    /\ queue.unfinished \in Nat
    /\ \A w \in AllPlatforms :
          pc[w] \in {"none", "created", "get", "delay", "extract", "call", "backoff",
                     "success", "failure", "except", "done", "cancelled",
                     "wait_lock", "locked", "progress", "wait_progress", "counting"}


\* ---- helpers of the properties ----
QueuedCopies(i) ==
    Cardinality({ k \in DOMAIN queue.items : queue.items[k].model_info = i })
Holders(i) == { w \in AllPlatforms : task[w].model_info = i }
InFlight == { w \in AllPlatforms : task[w] # NoTask }
ResultsFor(rs, i) == { k \in DOMAIN rs : rs[k].model_url = i }

\* C1: with P >= 1 providers every item gets at most one terminal outcome and, once
\* the run has returned, exactly one (accepted, or dropped from the queue for good);
\* no item is attempted more than P times; every task queued or held has
\* 0 <= retry_count <= P - 1.
C1_TerminalOutcomesAndAttempts ==
    platform_count >= 1 =>
        /\ \A i \in Items :
              /\ attempts[i] <= platform_count
              /\ terminal[i] <= 1
              /\ (terminal[i] = 1) = (outcome[i] # "none")
        /\ \A k \in DOMAIN queue.items :
              /\ queue.items[k].retry_count >= 0
              /\ queue.items[k].retry_count <= platform_count - 1
        /\ \A w \in InFlight :
              /\ task[w].retry_count >= 0
              /\ task[w].retry_count <= platform_count - 1
        /\ (mainPc = "returned" => \A i \in Items : terminal[i] = 1)

\* C1 witness: a returned run in which one item was accepted and another was
\* dropped after as many attempts as there are providers (P >= 2).
C1_Witness ==
    /\ mainPc = "returned"
    /\ platform_count >= 2
    /\ \E i, j \in Items :
          /\ outcome[i] = "accepted"
          /\ outcome[j] = "dropped"
          /\ attempts[j] = platform_count

\* C2: for each submitted item, the copies in the queue plus the workers holding
\* it between dequeue and re-enqueue/acknowledge are at most one.
C2_SingleOwner ==
    \A i \in Items : QueuedCopies(i) + Cardinality(Holders(i)) <= 1

\* C2 witness: two workers hold two different tasks at once, one of them a retry.
C2_Witness ==
    \E w1, w2 \in AllPlatforms :
        /\ w1 # w2
        /\ pc[w1] = "call"
        /\ pc[w2] = "call"
        /\ task[w1].retry_count > 0

\* C3: under fair scheduling, with every provider call and sleep returning, the
\* run always terminates: _work_stealing_main returns.
C3_Terminates == <>(mainPc = "returned")

\* C3 witness: a run has returned after a retry and a drop by exhaustion.
C3_Witness ==
    /\ mainPc = "returned"
    /\ platform_count >= 2
    /\ \E i \in Items : outcome[i] = "dropped" /\ failed[i] = platform_count

\* C4: the outstanding-unit count equals the queued units plus the units in
\* flight (each enqueued unit is acknowledged once, never twice and never
\* skipped), and the barrier is released, and passed by main, only when nothing
\* is queued or in flight.
C4_BarrierCountsEveryUnit ==
    /\ queue.unfinished = Len(queue.items) + Cardinality(InFlight)
    /\ (queue.released \/ mainPc \in {"gather", "returned"}) =>
          /\ queue.items = << >>
          /\ InFlight = {}
          /\ queue.unfinished = 0

\* C4 witness: the barrier is released after an item was re-enqueued and then
\* accepted.
C4_Witness ==
    /\ queue.released
    /\ \E i \in Items : failed[i] >= 1 /\ outcome[i] = "accepted"


\* ---- end-to-end scenario: 3 items, provider 1 ("A") always answers text that
\* fails parsing, provider 2 ("B") always answers 5 valid entries ----
ScenarioInit ==
    /\ model_infos = [i \in 1..3 |-> [url_ok |-> TRUE]]
    /\ platforms = 1..2
    /\ provider_mode = [w \in AllPlatforms |-> IF w = 1 THEN "parse_fail" ELSE "ok5"]
    /\ InitRun
    /\ InitPipelineIdle
    /\ InitTracker
    /\ InitParserIdle

ScenarioNext ==
    \/ MainStart
    \/ MainWake
    \/ MainReturn
    \/ \E w \in AllPlatforms :
          \/ WorkerStart(w)
          \/ GetNowait(w)
          \/ DelayDone(w)
          \/ ExtractBegin(w)
          \/ \E resp \in Responses : CallReturns(w, resp)
          \/ Success(w)
          \/ Failure(w)

ScenarioSpec == ScenarioInit /\ [][ScenarioNext]_vars

\* C5: in the scenario, for every interleaving, the returned list holds 3 results
\* of 5 records each, all produced by provider B, and each item was re-enqueued
\* at most once.
C5_ScenarioAllServedByB ==
    /\ \A i \in Items : failed[i] <= 1
    /\ mainPc = "returned" =>
          /\ Len(returned) = 3
          /\ \A k \in DOMAIN returned : Len(returned[k].keywords) = 5
          /\ \A i \in Items : served_by[i] = 2 /\ Cardinality(ResultsFor(returned, i)) = 1


\* the effect lines 454-471 have on a failed attempt of worker w: re-enqueue with
\* retry_count + 1 below the bound, else count the item as completed and drop it
HandledAsFailure(w) ==
    IF task[w].retry_count < platform_count - 1
    THEN /\ queue'.items = Append(queue.items, [task[w] EXCEPT !.retry_count = @ + 1])
         /\ queue'.unfinished = queue.unfinished
         /\ outcome' = outcome
         /\ completed_count' = completed_count
    ELSE /\ queue'.items = queue.items
         /\ queue'.unfinished = queue.unfinished - 1
         /\ outcome' = [outcome EXCEPT ![task[w].model_info] = "dropped"]
         /\ completed_count' = completed_count + 1

C7_DroppedOnlyAfterAllAttempts ==
    \A i \in Items :
        (terminal[i] = 1 /\ outcome[i] # "accepted") => failed[i] = platform_count

\* C8: the result list never names an item twice and is only ever appended to;
\* when the run has returned, it holds exactly one result for each item that had
\* a successful attempt and none for any other item.
C8_ResultPerAccepted ==
    /\ \A i \in Items : Cardinality(ResultsFor(results, i)) <= 1
    /\ (mainPc = "returned" /\ platform_count >= 1) =>
          /\ returned = results
          /\ \A i \in Items :
                Cardinality(ResultsFor(returned, i)) =
                    IF outcome[i] = "accepted" THEN 1 ELSE 0
          /\ \A k \in DOMAIN returned : returned[k].model_url \in Items

C8_AppendOnly ==
    \/ results' = results
    \/ /\ Len(results') = Len(results) + 1
       /\ SubSeq(results', 1, Len(results)) = results
       /\ results'[Len(results')].model_url \in Items
       /\ Len(results'[Len(results')].keywords) \in 1..8

C8_ResultsExactlyOnce == [](C8_ResultPerAccepted) /\ [][C8_AppendOnly]_vars

\* C8 witness: a returned run with one accepted and one dropped item, the list
\* holding the single accepted result.
C8_Witness ==
    /\ mainPc = "returned"
    /\ Len(returned) = 1
    /\ \E i, j \in Items : outcome[i] = "accepted" /\ outcome[j] = "dropped"

\* C9: an attempt whose text parses to no record never counts as a success, and
\* whatever made the attempt fail (empty parse, provider error, rate limit) the
\* worker applies the same rule: re-enqueue with retry_count + 1 below the
\* bound, else terminal drop.
C9_FailureKindsAgree ==
    [][\A w \in AllPlatforms :
          /\ (pc[w] = "call" /\ pc'[w] = "success") => attempt_kind'[w] = "ok"
          /\ (pc[w] = "call" /\ pc'[w] \in {"success", "failure", "backoff"}
                /\ attempt_kind'[w] \in {"parse", "error"}) => pc'[w] = "failure"
          /\ (pc[w] = "failure" /\ pc'[w] = "get") =>
                /\ attempt_kind[w] \in {"parse", "error", "rate_limit"}
                /\ HandledAsFailure(w)]_vars

\* C9 witness: one item was dropped after a parse failure and a provider error
\* were both handled in the run (a worker is handling a parse failure on the last
\* allowed attempt of an item that another kind of failure re-enqueued).
C9_Witness ==
    \E w, v \in AllPlatforms :
        /\ w # v
        /\ pc[w] = "failure"
        /\ attempt_kind[w] = "parse"
        /\ attempt_kind[v] = "error"
        /\ task[w].retry_count = platform_count - 1
        /\ task[w].retry_count >= 1

\* C10: an exception raised while an item is processed stays in the worker: the
\* worker goes on dequeuing, and the item gets the retry-or-drop decision of any
\* other failure.
C10_ExceptionHandledAsFailure ==
    [][\A w \in AllPlatforms :
          pc[w] = "except" =>
              /\ pc'[w] = "get"
              /\ HandledAsFailure(w)]_vars


\* ---- the exclusion tracker on its own ----
\* A tracker that has already served earlier results: `bulk` keywords 1..bulk at
\* or above the threshold, then `near` keywords one occurrence short of it, in
\* the order of their first insertion.
PriorFrequency(bulk, near) ==
    [i \in 1..(bulk + near) |->
        [keyword |-> i,
         count |-> IF i <= bulk THEN ExclusionThreshold + (i % 2)
                   ELSE ExclusionThreshold - 1]]

BulkAtStart == Len(HighFreq(frequency_at_start))

\* keywords the explored calls record: the oldest one and the two that follow
\* the keywords at or above the threshold (near the threshold, or never seen)
ActiveKeywords ==
    {1} \cup (BulkAtStart + 1)..(BulkAtStart + 2)

Batches ==
    UNION { [1..n -> ActiveKeywords] : n \in 1..MaxBatch }

ExclusionInit ==
    /\ model_infos = << >>
    /\ platforms = {}
    /\ provider_mode = [w \in AllPlatforms |-> "any"]
    /\ InitRun
    /\ InitPipelineIdle
    /\ \E bulk \in {0, ExclusionCap - 1, ExclusionCap}, near \in 0..MaxNear :
          /\ keyword_frequency = PriorFrequency(bulk, near)
          /\ first_reached = [i \in 1..bulk |-> [keyword |-> i, call |-> 0]]
    /\ excluded_keywords = ExclusionView(keyword_frequency)
    /\ frequency_at_start = keyword_frequency
    /\ record_calls = 0
    /\ InitParserIdle

\* update_exclusion_queue(keywords) called on the tracker
Record(keywords) ==
    /\ record_calls < MaxRecords
    /\ Recorded(keywords)
    /\ UNCHANGED << schedVars, promptVars, attemptVars, offlineVars, lockVars >>

ExclusionNext == \E keywords \in Batches : Record(keywords)

ExclusionSpec == ExclusionInit /\ [][ExclusionNext]_vars

\* ---- a run on an extractor object that has served earlier runs ----
\* keyword_frequency and excluded_keywords are attributes of the extractor and
\* are not reset by _work_stealing_main: one keyword is above the threshold and
\* MaxNear keywords are one occurrence short of it.
ReuseInit ==
    /\ model_infos \in ItemLists
    /\ platforms \in { 1..p : p \in 0..MaxProviders }
    /\ provider_mode = [w \in AllPlatforms |-> "any"]
    /\ InitRun
    /\ InitPipelineIdle
    /\ keyword_frequency = PriorFrequency(1, MaxNear)
    /\ first_reached = << [keyword |-> 1, call |-> 0] >>
    /\ excluded_keywords = ExclusionView(keyword_frequency)
    /\ frequency_at_start = keyword_frequency
    /\ record_calls = 0
    /\ InitParserIdle

ReuseSpec == ReuseInit /\ [][Next]_vars

\* ---- response parser (src/base_extractor.py, _parse_keywords_response) ----
\* A text is a sequence of characters; a character outside ASCII is written as
\* its code point.
Whitespace == { " ", "\t", "\n", "U+3000" }
Brackets == { "(", ")", "U+FF08", "U+FF09" }
LowerCase == << "a", "b", "c", "d", "e", "f", "g", "h", "i", "j", "k", "l", "m", "n", "o", "p", "q", "r", "s", "t", "u", "v", "w", "x", "y", "z" >>
UpperCase == << "A", "B", "C", "D", "E", "F", "G", "H", "I", "J", "K", "L", "M", "N", "O", "P", "Q", "R", "S", "T", "U", "V", "W", "X", "Y", "Z" >>
AsciiLetters ==
    { LowerCase[i] : i \in DOMAIN LowerCase } \cup { UpperCase[i] : i \in DOMAIN UpperCase }
AsciiDigits == { "0", "1", "2", "3", "4", "5", "6", "7", "8", "9" }

\* lines 420-461: every brand name maps to the name followed by the same suffix
BrandNames ==
    { << "U+767E", "U+5EA6" >>,
      << "U+817E", "U+8BAF" >>,
      << "U+963F", "U+91CC" >>,
      << "U+963F", "U+91CC", "U+5DF4", "U+5DF4" >>,
      << "U+5B57", "U+8282" >>,
      << "U+5B57", "U+8282", "U+8DF3", "U+52A8" >>,
      << "U+534E", "U+4E3A" >>,
      << "U+5C0F", "U+7C73" >>,
      << "U+5FEB", "U+624B" >>,
      << "U+7F51", "U+6613" >>,
      << "U+4EAC", "U+4E1C" >>,
      << "U+7F8E", "U+56E2" >>,
      << "U+6EF4", "U+6EF4" >>,
      << "O", "p", "e", "n", "A", "I" >>,
      << "G", "o", "o", "g", "l", "e" >>,
      << "U+8C37", "U+6B4C" >>,
      << "M", "i", "c", "r", "o", "s", "o", "f", "t" >>,
      << "U+5FAE", "U+8F6F" >>,
      << "M", "e", "t", "a" >>,
      << "F", "a", "c", "e", "b", "o", "o", "k" >>,
      << "A", "m", "a", "z", "o", "n" >>,
      << "U+4E9A", "U+9A6C", "U+900A" >>,
      << "A", "p", "p", "l", "e" >>,
      << "U+82F9", "U+679C" >>,
      << "N", "V", "I", "D", "I", "A" >>,
      << "U+82F1", "U+4F1F", "U+8FBE" >>,
      << "U+667A", "U+8C31" >>,
      << "U+6708", "U+4E4B", "U+6697", "U+9762" >>,
      << "U+96F6", "U+4E00", "U+4E07", "U+7269" >>,
      << "U+6DF1", "U+5EA6", "U+6C42", "U+7D22" >>,
      << "U+5546", "U+6C64" >>,
      << "U+65F7", "U+89C6" >>,
      << "U+79D1", "U+5927", "U+8BAF", "U+98DE" >>,
      << "U+4E91", "U+77E5", "U+58F0" >>,
      << "U+51FA", "U+95E8", "U+95EE", "U+95EE" >>,
      << "U+5C0F", "U+51B0" >> }
BrandSuffix == << "U+5927", "U+6A21", "U+578B" >>
BrandDimension == << "U+54C1", "U+724C", "U+4E0E", "U+8EAB", "U+4EFD" >>
CjkUnified ==
    { "U+4E00", "U+4E07", "U+4E0E", "U+4E1C", "U+4E3A", "U+4E4B", "U+4E91", 
      "U+4E9A", "U+4EAC", "U+4EFD", "U+4F1F", "U+51B0", "U+51FA", "U+52A8", 
      "U+534E", "U+54C1", "U+5546", "U+56E2", "U+578B", "U+58F0", "U+5927", 
      "U+5B57", "U+5C0F", "U+5DF4", "U+5EA6", "U+5FAE", "U+5FEB", "U+624B", 
      "U+65F7", "U+6613", "U+667A", "U+6697", "U+6708", "U+679C", "U+6A21", 
      "U+6B4C", "U+6C42", "U+6C64", "U+6DF1", "U+6EF4", "U+724C", "U+7269", 
      "U+767E", "U+77E5", "U+79D1", "U+7C73", "U+7D22", "U+7F51", "U+7F8E", 
      "U+817E", "U+8282", "U+82F1", "U+82F9", "U+89C6", "U+8BAF", "U+8C31", 
      "U+8C37", "U+8DF3", "U+8EAB", "U+8F6F", "U+8FBE", "U+900A", "U+91CC", 
      "U+95E8", "U+95EE", "U+963F", "U+96F6", "U+9762", "U+98DE", "U+9A6C" }

\* str.strip(chars) and its two halves
RECURSIVE LStrip(_, _)
LStrip(t, chars) ==
    IF t # << >> /\ Head(t) \in chars THEN LStrip(Tail(t), chars) ELSE t

RECURSIVE RStrip(_, _)
RStrip(t, chars) ==
    IF t # << >> /\ t[Len(t)] \in chars
    THEN RStrip(SubSeq(t, 1, Len(t) - 1), chars) ELSE t

Strip(t, chars) == RStrip(LStrip(t, chars), chars)

\* re.sub(r'[chars]', '', t)
RemoveAll(t, chars) == SelectSeq(t, LAMBDA c : c \notin chars)

\* re.sub(r'[chars]+', by, t): every maximal run becomes one `by`
RECURSIVE ReplaceRuns(_, _, _)
ReplaceRuns(t, chars, by) ==
    IF t = << >> THEN << >>
    ELSE IF Head(t) \in chars
         THEN << by >> \o ReplaceRuns(LStrip(t, chars), chars, by)
         ELSE << Head(t) >> \o ReplaceRuns(Tail(t), chars, by)

\* line 328: the character class [\u4e00-\u9fa5 a-z A-Z 0-9 . -]
WhitelistedAnyScript(c) ==
    c \in CjkUnified \cup AsciiLetters \cup AsciiDigits \cup { ".", "-", "U+3042" }
Whitelisted(c) ==
    c \in CjkUnified \cup AsciiLetters \cup AsciiDigits \cup { ".", "-" }

\* lines 404-470
EnhanceBrandKeywordsOff(keyword, dimension) == keyword
EnhanceBrandKeywords(keyword, dimension) ==
    IF dimension # BrandDimension THEN keyword
    ELSE IF keyword \in BrandNames THEN keyword \o BrandSuffix
    ELSE keyword

\* lines 324-325: re.sub(r'\s+', '-', keyword)
HyphenateOff(t) == t
Hyphenate(t) == ReplaceRuns(t, Whitespace, "-")

\* lines 330-332: runs of '-' and runs of '.' become one
CollapseSeparatorsOff(t) == t
CollapseSeparators(t) == ReplaceRuns(ReplaceRuns(t, { "-" }, "-"), { "." }, ".")

\* lines 334-335: keyword.strip('-.')
TrimSeparatorsOff(t) == t
TrimSeparators(t) == Strip(t, { "-", "." })

\* lines 337-343: both branches of the version test are `pass`
KeepVersion(t) == t

\* lines 319-346: the keyword text of a cleaned record
CleanKeywordText(text, dimension) ==
    LET stripped == Strip(text, Whitespace)
        unbracketed == RemoveAll(stripped, Brackets)
        hyphenated == Hyphenate(unbracketed)
        kept == SelectSeq(hyphenated, Whitelisted)
        collapsed == CollapseSeparators(kept)
        trimmed == TrimSeparators(collapsed)
    IN  EnhanceBrandKeywords(KeepVersion(trimmed), dimension)

\* lines 309-352
CleanKeyword(kw) ==
    [keyword |-> CleanKeywordText(kw.keyword.text, kw.dimension.text),
     dimension |-> Strip(kw.dimension.text, Whitespace),
     reason |-> Strip(kw.reason.text, Whitespace)]

\* JSON values as json.loads returns them.  A member of an entry is absent, a
\* str, or a value of another type; an entry is a dict, null, or a str that
\* does not contain the word "keyword".
Str(text) == [type |-> "str", text |-> text]
Absent == [type |-> "absent", text |-> << >>]
NonStr == [type |-> "other", text |-> << >>]
NullEntry == [type |-> "null", keyword |-> Absent, dimension |-> Absent, reason |-> Absent]
TextEntry == [type |-> "text", keyword |-> Absent, dimension |-> Absent, reason |-> Absent]

\* line 307, one term of all(...): `field in keyword_obj and keyword_obj[field].strip()`
FieldCheck(kw, member) ==
    IF kw.type = "null" THEN "TypeError"
    ELSE IF kw.type = "text" \/ member.type = "absent" THEN "invalid"
    ELSE IF member.type = "other" THEN "AttributeError"
    ELSE IF Strip(member.text, Whitespace) = << >> THEN "invalid"
    ELSE "valid"

\* lines 296-307: all(...) stops at the first member that fails or raises
ValidateKeyword(kw) ==
    IF FieldCheck(kw, kw.keyword) # "valid" THEN FieldCheck(kw, kw.keyword)
    ELSE IF FieldCheck(kw, kw.dimension) # "valid" THEN FieldCheck(kw, kw.dimension)
    ELSE FieldCheck(kw, kw.reason)

Returned(value) == [exc |-> "none", value |-> value]
Raised(exc) == [exc |-> exc, value |-> << >>]

\* lines 273-274: `cleaned_kw['keyword'] not in current_keywords`, negated
LowerOf(c) ==
    IF \E i \in DOMAIN UpperCase : UpperCase[i] = c
    THEN LowerCase[CHOOSE i \in DOMAIN UpperCase : UpperCase[i] = c]
    ELSE c
AlreadyKeptAnyCase(cleaned_keywords, keyword) ==
    \E i \in DOMAIN cleaned_keywords :
        [j \in DOMAIN cleaned_keywords[i].keyword |-> LowerOf(cleaned_keywords[i].keyword[j])]
            = [j \in DOMAIN keyword |-> LowerOf(keyword[j])]
AlreadyKept(cleaned_keywords, keyword) ==
    \E i \in DOMAIN cleaned_keywords : cleaned_keywords[i].keyword = keyword

\* lines 268-278: validate, clean and keep the first record of every keyword
RECURSIVE CleanLoop(_, _)
CleanLoop(keywords, cleaned_keywords) ==
    IF keywords = << >> THEN Returned(cleaned_keywords)
    ELSE LET kw == Head(keywords)
             valid == ValidateKeyword(kw)
             cleaned_kw == CleanKeyword(kw)
         IN  IF valid \in { "TypeError", "AttributeError" } THEN Raised(valid)
             ELSE IF valid = "invalid" THEN CleanLoop(Tail(keywords), cleaned_keywords)
             ELSE IF AlreadyKept(cleaned_keywords, cleaned_kw.keyword)
                  THEN CleanLoop(Tail(keywords), cleaned_keywords)
                  ELSE CleanLoop(Tail(keywords), Append(cleaned_keywords, cleaned_kw))

\* lines 263-265: more than 8 entries are cut to the first 8
CountGateKeepAll(items) == items
CountGate(items) == IF Len(items) > 8 THEN SubSeq(items, 1, 8) ELSE items

\* lines 256-278: from the decoded data to the returned list.  data.get raises
\* for data that is no dict and yields [] for a missing member; len raises for
\* null and numbers; a dict cannot be sliced.
ParseData(data) ==
    IF data.type # "object" THEN Raised("AttributeError")
    ELSE IF data.keywords.type \in { "null", "number" } THEN Raised("TypeError")
    ELSE IF Len(data.keywords.items) < 3 THEN Returned(<< >>)
    ELSE IF Len(data.keywords.items) > 8 /\ data.keywords.type = "dict"
         THEN Raised("TypeError")
    ELSE CleanLoop(CountGate(data.keywords.items), << >>)

\* lines 216-278: the body of the try block
ParseBody(resp) ==
    IF resp.loads = "JSONDecodeError" THEN Raised("JSONDecodeError")
    ELSE ParseData(resp.data)

\* lines 280-294: both handlers print and return []
HandleJsonErrorOnly(exc) ==
    IF exc = "JSONDecodeError" THEN Returned(<< >>) ELSE Raised(exc)
HandleException(exc) == Returned(<< >>)

\* lines 206-294
ParseKeywordsResponse(resp) ==
    IF ParseBody(resp).exc = "none" THEN ParseBody(resp)
    ELSE HandleException(ParseBody(resp).exc)

\* ---- the responses explored ----
ValidEntry(i) ==
    [type |-> "dict",
     keyword |-> Str(<< "k", LowerCase[i] >>),
     dimension |-> Str(<< "d" >>),
     reason |-> Str(<< "r", LowerCase[i] >>)]

DefectKinds ==
    { "missing", "blank", "nonstr", "null", "text", "duplicate", "padded",
      "symbols", "brand", "indented", "uppercase", "alias" }

DefectEntry(i, kind) ==
    CASE kind = "missing"   -> [ValidEntry(i) EXCEPT !.reason = Absent]
      [] kind = "blank"     -> [ValidEntry(i) EXCEPT !.keyword = Str(<< " ", "\t" >>)]
      [] kind = "nonstr"    -> [ValidEntry(i) EXCEPT !.dimension = NonStr]
      [] kind = "null"      -> NullEntry
      [] kind = "text"      -> TextEntry
      [] kind = "duplicate" -> [ValidEntry(i) EXCEPT !.keyword = ValidEntry(1).keyword]
      [] kind = "padded"    ->
            [ValidEntry(i) EXCEPT
                !.keyword = Str(<< " ", "k", "(", LowerCase[i], ")", " " >>),
                !.reason = Str(<< " ", "r", LowerCase[i] >>)]
      [] kind = "symbols"   -> [ValidEntry(i) EXCEPT !.keyword = Str(<< "(", "!", ")" >>)]
      [] kind = "brand"     ->
            [ValidEntry(i) EXCEPT !.keyword = Str(<< "U+767E", "U+5EA6" >>),
                                  !.dimension = Str(BrandDimension)]
      [] kind = "indented"  -> [ValidEntry(i) EXCEPT !.dimension = Str(<< " ", "d" >>)]
      [] kind = "uppercase" -> [ValidEntry(i) EXCEPT !.keyword = Str(<< "K", "a" >>)]
      [] kind = "alias"     -> [ValidEntry(i) EXCEPT !.keyword = Str(<< "(", "k", ")", "a" >>)]
      [] OTHER              -> ValidEntry(i)

\* n entries, all valid and distinct except the one at position d (0 = none)
EntryList(n, d, kind) ==
    [i \in 1..n |-> IF i = d THEN DefectEntry(i, kind) ELSE ValidEntry(i)]

\* n entries that all have the same flaw
UniformList(n, kind) == [i \in 1..n |-> DefectEntry(i, kind)]

KeywordsValues ==
    { [type |-> "list", items |-> EntryList(n, 0, "none")] : n \in 0..MaxEntries }
    \cup { [type |-> "list", items |-> UniformList(n, kind)] :
             n \in 3..MaxEntries, kind \in { "missing", "blank", "duplicate" } }
    \cup { [type |-> "list", items |-> EntryList(n, d, kind)] :
             n \in 1..MaxEntries, d \in 1..MaxEntries, kind \in DefectKinds }
    \cup { [type |-> t, items |-> [i \in 1..n |-> TextEntry]] :
             t \in { "string", "dict" }, n \in 0..MaxEntries }
    \cup { [type |-> t, items |-> << >>] : t \in { "null", "number", "absent" } }

\* text that is no JSON after the repairs, JSON that is no object, an object
\* with or without `keywords`
ParserInputs ==
    { NoResponse, [loads |-> "ok", data |-> NoData] }
    \cup { [loads |-> "ok", data |-> [type |-> "object", keywords |-> k]] :
             k \in KeywordsValues }

ParserInit ==
    /\ model_infos = << >>
    /\ platforms = {}
    /\ provider_mode = [w \in AllPlatforms |-> "any"]
    /\ InitRun
    /\ InitPipelineIdle
    /\ InitTracker
    /\ response \in ParserInputs
    /\ parse_outcome = NotParsed
    /\ InitTextIdle
    /\ InitCleanerIdle

\* one call of _parse_keywords_response(response)
Parse ==
    /\ ~parse_outcome.called
    /\ parse_outcome' = [called |-> TRUE,
                         raised |-> ParseKeywordsResponse(response).exc,
                         value |-> ParseKeywordsResponse(response).value]
    /\ UNCHANGED << schedVars, exclVars, promptVars, attemptVars, lockVars, retryVars, reportVars,
                    response, response_text,
                   keyword_obj, cleaned >>

ParserNext == Parse

ParserSpec == ParserInit /\ [][ParserNext]_vars

\* ---- the response as text (lines 216-254) ----
\* A response text is a sequence of tokens: the structural characters of JSON,
\* whitespace, the literal null, complete string literals, a string literal the
\* end of the text cuts short, the code fence with and without the word json
\* and words of prose.  The
\* characters inside string literals and prose are none of these: { } [ ] , : "
\* and no backquote, so that a search for one of them finds a token.
Tok(kind) == [kind |-> kind, text |-> << >>]
StrTok(chars) == [kind |-> "string", text |-> chars]
PartialTok(chars) == [kind |-> "partial", text |-> chars]
ProseTok(chars) == [kind |-> "prose", text |-> chars]
WhitespaceTokens == { Tok(" "), Tok("\n") }

KeywordsKey == << "k", "e", "y", "w", "o", "r", "d", "s" >>
KeywordKey == << "k", "e", "y", "w", "o", "r", "d" >>
DimensionKey == << "d", "i", "m", "e", "n", "s", "i", "o", "n" >>
ReasonKey == << "r", "e", "a", "s", "o", "n" >>

Least(S) == CHOOSE i \in S : \A j \in S : i <= j
Greatest(S) == CHOOSE i \in S : \A j \in S : j <= i
Positions(t, kinds) == { i \in DOMAIN t : t[i].kind \in kinds }
From(t, i) == SubSeq(t, i, Len(t))
\* the length of the run of whitespace t begins with, and whether a newline is in it
LeadingWhitespace(t) == Len(t) - Len(LStrip(t, WhitespaceTokens))
BreaksLine(t) == \E j \in 1..LeadingWhitespace(t) : t[j].kind = "\n"

\* json.loads: the values it builds
JStr(chars) == [type |-> "str", text |-> chars, items |-> << >>]
JNull == [type |-> "null", text |-> << >>, items |-> << >>]
JArray(items) == [type |-> "array", text |-> << >>, items |-> items]
JObject(members) == [type |-> "object", text |-> << >>, items |-> members]
JAbsent == [type |-> "absent", text |-> << >>, items |-> << >>]
Parsed(next, val) == [ok |-> TRUE, next |-> next, val |-> val]
Unparsed == [ok |-> FALSE, next |-> 0, val |-> JNull]

\* json.loads: one value that starts at token i of t, t without whitespace
RECURSIVE ParseValue(_, _)
RECURSIVE ParseMembers(_, _, _)
RECURSIVE ParseItems(_, _, _)
ParseValue(t, i) ==
    IF i > Len(t) THEN Unparsed
    ELSE CASE t[i].kind = "string" -> Parsed(i + 1, JStr(t[i].text))
           [] t[i].kind = "null" -> Parsed(i + 1, JNull)
           [] t[i].kind = "{" ->
                IF i < Len(t) /\ t[i + 1].kind = "}" THEN Parsed(i + 2, JObject(<< >>))
                ELSE ParseMembers(t, i + 1, << >>)
           [] t[i].kind = "[" ->
                IF i < Len(t) /\ t[i + 1].kind = "]" THEN Parsed(i + 2, JArray(<< >>))
                ELSE ParseItems(t, i + 1, << >>)
           [] OTHER -> Unparsed

ParseMembers(t, i, members) ==
    IF i + 1 > Len(t) \/ t[i].kind # "string" \/ t[i + 1].kind # ":" THEN Unparsed
    ELSE LET v == ParseValue(t, i + 2)
             all == Append(members, [key |-> t[i].text, val |-> v.val])
         IN  IF ~v.ok \/ v.next > Len(t) THEN Unparsed
             ELSE IF t[v.next].kind = "}" THEN Parsed(v.next + 1, JObject(all))
             ELSE IF t[v.next].kind = "," THEN ParseMembers(t, v.next + 1, all)
             ELSE Unparsed

ParseItems(t, i, items) ==
    LET v == ParseValue(t, i)
        all == Append(items, v.val)
    IN  IF ~v.ok \/ v.next > Len(t) THEN Unparsed
        ELSE IF t[v.next].kind = "]" THEN Parsed(v.next + 1, JArray(all))
        ELSE IF t[v.next].kind = "," THEN ParseItems(t, v.next + 1, all)
        ELSE Unparsed

\* dict lookup: of members with one key json.loads keeps the last
Member(val, key) ==
    LET at == { i \in DOMAIN val.items : val.items[i].key = key }
    IN  IF at = {} THEN JAbsent ELSE val.items[Greatest(at)].val

\* what lines 256-307 see of a decoded value
AsMember(val) ==
    CASE val.type = "absent" -> Absent
      [] val.type = "str"    -> Str(val.text)
      [] OTHER               -> NonStr

AsEntry(val) ==
    CASE val.type = "object" ->
            [type |-> "dict",
             keyword |-> AsMember(Member(val, KeywordKey)),
             dimension |-> AsMember(Member(val, DimensionKey)),
             reason |-> AsMember(Member(val, ReasonKey))]
      [] val.type = "null"   -> NullEntry
      [] OTHER               -> TextEntry

AsKeywords(val) ==
    CASE val.type = "absent" -> [type |-> "absent", items |-> << >>]
      [] val.type = "null"   -> [type |-> "null", items |-> << >>]
      [] val.type = "array"  ->
            [type |-> "list", items |-> [i \in DOMAIN val.items |-> AsEntry(val.items[i])]]
      [] val.type = "str"    ->
            [type |-> "string", items |-> [i \in DOMAIN val.text |-> TextEntry]]
      [] OTHER               ->
            [type |-> "dict", items |-> [i \in DOMAIN val.items |-> TextEntry]]

AsData(val) ==
    IF val.type = "object"
    THEN [type |-> "object", keywords |-> AsKeywords(Member(val, KeywordsKey))]
    ELSE NoData

\* json.loads(json_str)
JsonLoads(t) ==
    LET tokens == SelectSeq(t, LAMBDA c : c \notin WhitespaceTokens)
        v == ParseValue(tokens, 1)
    IN  IF v.ok /\ v.next = Len(tokens) + 1
        THEN [loads |-> "ok", data |-> AsData(v.val)]
        ELSE NoResponse

\* lines 229-241: the text between the fences, or from the first { to the last }
ExtractSlice(t) ==
    IF Positions(t, { "fence_json" }) # {}
    THEN LET start == Least(Positions(t, { "fence_json" })) + 1
             ends == { j \in Positions(t, { "fence", "fence_json" }) : j >= start }
         IN  IF ends # {}
             THEN Strip(SubSeq(t, start, Least(ends) - 1), WhitespaceTokens)
             ELSE Strip(From(t, start), WhitespaceTokens)
    ELSE IF Positions(t, { "{" }) # {}
              /\ Positions(t, { "}" }) # {}
              /\ Greatest(Positions(t, { "}" })) > Least(Positions(t, { "{" }))
         THEN SubSeq(t, Least(Positions(t, { "{" })), Greatest(Positions(t, { "}" })))
         ELSE t

\* line 368: re.sub(r'(\},\s*\n\s*)("keyword":)', r'\1{\2', json_str)
MissingBraceAt(t, i) ==
    /\ i + 1 <= Len(t)
    /\ t[i].kind = "}"
    /\ t[i + 1].kind = ","
    /\ BreaksLine(From(t, i + 2))
    /\ LET after == LStrip(From(t, i + 2), WhitespaceTokens)
       IN  Len(after) >= 2 /\ after[1] = StrTok(KeywordKey) /\ after[2].kind = ":"

RECURSIVE FixMissingBrace(_)
FixMissingBrace(t) ==
    LET found == { i \in DOMAIN t : MissingBraceAt(t, i) }
        key == Least(found) + 2 + LeadingWhitespace(From(t, Least(found) + 2))
    IN  IF found = {} THEN t
        ELSE SubSeq(t, 1, key - 1) \o << Tok("{") >> \o << t[key] >>
                \o FixMissingBrace(From(t, key + 1))

\* line 371: re.sub(r',(\s*\}\s*\])', r'\1', json_str)
TrailingCommaAt(t, i) ==
    /\ t[i].kind = ","
    /\ LET after == LStrip(From(t, i + 1), WhitespaceTokens)
       IN  /\ after # << >>
           /\ after[1].kind = "}"
           /\ LET last == LStrip(Tail(after), WhitespaceTokens)
              IN  last # << >> /\ last[1].kind = "]"

RECURSIVE FixTrailingComma(_)
FixTrailingComma(t) ==
    LET found == { i \in DOMAIN t : TrailingCommaAt(t, i) }
    IN  IF found = {} THEN t
        ELSE SubSeq(t, 1, Least(found) - 1) \o FixTrailingComma(From(t, Least(found) + 1))

\* line 374: re.sub(r'(\})\s*\n\s*(\{)', r'\1,\n  \2', json_str)
MissingCommaAt(t, i) ==
    /\ t[i].kind = "}"
    /\ BreaksLine(From(t, i + 1))
    /\ LET after == LStrip(From(t, i + 1), WhitespaceTokens)
       IN  after # << >> /\ after[1].kind = "{"

RECURSIVE FixMissingComma(_)
FixMissingComma(t) ==
    LET found == { i \in DOMAIN t : MissingCommaAt(t, i) }
        open == Least(found) + 1 + LeadingWhitespace(From(t, Least(found) + 1))
    IN  IF found = {} THEN t
        ELSE SubSeq(t, 1, Least(found))
                \o << Tok(","), Tok("\n"), Tok(" "), Tok(" "), Tok("{") >>
                \o FixMissingComma(From(t, open + 1))

\* lines 354-377
FixCommonJsonErrors(t) == FixMissingComma(FixTrailingComma(FixMissingBrace(t)))

\* line 392: re.findall(r'\{[^}]*"keyword"[^}]*\}', before_last)
KeywordObjectAt(t, i) ==
    /\ t[i].kind = "{"
    /\ \E j \in Positions(t, { "}" }) :
          /\ j > i
          /\ \A k \in (i + 1)..(j - 1) : t[k].kind # "}"
          /\ \E k \in (i + 1)..(j - 1) : t[k] = StrTok(KeywordKey)

RECURSIVE FindKeywordObjects(_)
FindKeywordObjects(t) ==
    LET found == { i \in DOMAIN t : KeywordObjectAt(t, i) }
        close == Least({ j \in Positions(t, { "}" }) : j > Least(found) })
    IN  IF found = {} THEN << >>
        ELSE << SubSeq(t, Least(found), close) >> \o FindKeywordObjects(From(t, close + 1))

\* before_last.rfind(last_keyword), counted from 1
RFind(t, sub) ==
    Greatest({ p \in 1..(Len(t) - Len(sub) + 1) : SubSeq(t, p, p + Len(sub) - 1) = sub })

Closers == << Tok("}"), Tok("]"), Tok("}") >>

\* lines 379-402
FixTruncatedJson(t) ==
    IF t # << >> /\ t[Len(t)].kind = "}" THEN t
    ELSE IF Positions(t, { "}" }) = {} THEN t
    ELSE LET before_last == SubSeq(t, 1, Greatest(Positions(t, { "}" })) - 1)
             keyword_objects == FindKeywordObjects(before_last)
             last_keyword == keyword_objects[Len(keyword_objects)]
         IN  IF \A i \in DOMAIN before_last : before_last[i] # StrTok(KeywordsKey) THEN t
             ELSE IF keyword_objects # << >>
                  THEN SubSeq(before_last, 1, RFind(before_last, last_keyword) - 1)
                          \o last_keyword \o Closers
                  ELSE before_last \o Closers

\* lines 229-251: the text the second json.loads is given.  Lines 221-222 and
\* 243-244 replace the ASCII quote by itself and a fragment of Python source by
\* an apostrophe; no text explored contains that fragment.
RepairedText(t) ==
    FixTruncatedJson(FixCommonJsonErrors(ExtractSlice(Strip(t, WhitespaceTokens))))

\* lines 216-254: what `data` is bound to, or the JSONDecodeError raised
DecodeResponse(t) ==
    IF JsonLoads(Strip(t, WhitespaceTokens)).loads = "ok"
    THEN JsonLoads(Strip(t, WhitespaceTokens))
    ELSE JsonLoads(RepairedText(t))

\* ---- the response texts explored ----
\* the text of one entry, as json.dumps writes it without blanks
MemberTokens(key, member) ==
    IF member.type = "absent" THEN << >>
    ELSE << StrTok(key), Tok(":"),
            IF member.type = "str" THEN StrTok(member.text) ELSE Tok("null") >>

RECURSIVE JoinTokens(_, _)
JoinTokens(parts, separator) ==
    IF parts = << >> THEN << >>
    ELSE IF Len(parts) = 1 THEN parts[1]
    ELSE parts[1] \o separator \o JoinTokens(Tail(parts), separator)

EntryTokens(e) ==
    CASE e.type = "null" -> << Tok("null") >>
      [] e.type = "text" -> << StrTok(<< "x" >>) >>
      [] OTHER ->
            << Tok("{") >>
            \o JoinTokens(SelectSeq(<< MemberTokens(KeywordKey, e.keyword),
                                       MemberTokens(DimensionKey, e.dimension),
                                       MemberTokens(ReasonKey, e.reason) >>,
                                    LAMBDA m : m # << >>),
                          << Tok(",") >>)
            \o << Tok("}") >>

Layouts == { "line", "pretty" }
LineBreak(layout) == IF layout = "pretty" THEN << Tok("\n") >> ELSE << >>
Indent(layout) == IF layout = "pretty" THEN << Tok("\n"), Tok(" "), Tok(" ") >> ELSE << Tok(" ") >>
Opening(layout) ==
    << Tok("{") >> \o LineBreak(layout) \o << StrTok(KeywordsKey), Tok(":"), Tok("[") >>
Closing(layout) == LineBreak(layout) \o << Tok("]") >> \o LineBreak(layout) \o << Tok("}") >>

\* {"keywords": [e1, ..., en]}
Document(entries, layout) ==
    Opening(layout)
    \o JoinTokens([i \in DOMAIN entries |-> Indent(layout) \o EntryTokens(entries[i])],
                  << Tok(",") >>)
    \o Closing(layout)

\* the slips lines 366-374 repair, in a document of valid entries written one
\* entry a line: a comma after the last member of the last entry, no comma
\* between two entries, no opening brace of an entry after the first
Slips == { "trailing_comma", "missing_comma", "missing_brace" }
SlippedEntry(entries, i, slip) ==
    LET whole == EntryTokens(entries[i])
    IN  CASE slip = "trailing_comma" /\ i = Len(entries) ->
                SubSeq(whole, 1, Len(whole) - 1) \o << Tok(","), Tok("}") >>
          [] slip = "missing_brace" /\ i = 2 -> Tail(whole)
          [] OTHER -> whole
SlippedDocument(entries, slip) ==
    Opening("pretty")
    \o JoinTokens([i \in DOMAIN entries |->
                      (IF i = 1 \/ (i = 2 /\ slip = "missing_comma")
                       THEN << >> ELSE << Tok(",") >>)
                      \o Indent("pretty") \o SlippedEntry(entries, i, slip)],
                  << >>)
    \o Closing("pretty")

\* a response the provider cut inside the entry after the complete ones: after
\* its opening brace, inside its first value, or inside a later key
Cuts == { "brace", "value", "key" }
PartialEntry(cut) ==
    CASE cut = "brace" -> << Tok("{") >>
      [] cut = "value" -> << Tok("{"), StrTok(KeywordKey), Tok(":"), PartialTok(<< "k" >>) >>
      [] OTHER         -> << Tok("{"), StrTok(KeywordKey), Tok(":"), StrTok(<< "k", "z" >>),
                             Tok(","), PartialTok(<< "d", "i", "m", "e", "n" >>) >>
Truncated(entries, layout, cut) ==
    Opening(layout)
    \o JoinTokens([i \in DOMAIN entries |-> Indent(layout) \o EntryTokens(entries[i])]
                     \o << Indent(layout) \o PartialEntry(cut) >>,
                  << Tok(",") >>)

\* around the JSON: nothing, a closed fence after a line of prose, a fence the
\* response ends in, prose without a fence
Wrappers == { "bare", "fenced", "open_fence", "prose" }
Wrapped(t, wrapper) ==
    CASE wrapper = "fenced" ->
            << ProseTok(<< "h", "i" >>), Tok("\n"), Tok("fence_json"), Tok("\n") >>
            \o t \o << Tok("\n"), Tok("fence") >>
      [] wrapper = "open_fence" -> << Tok("fence_json"), Tok("\n") >> \o t
      [] wrapper = "prose" ->
            << ProseTok(<< "h", "i" >>), Tok("\n") >> \o t
            \o << Tok("\n"), ProseTok(<< "b", "y", "e" >>) >>
      [] OTHER -> t \o << Tok("\n") >>

EntryLists ==
    { EntryList(n, 0, "none") : n \in 0..MaxEntries }
    \cup { EntryList(MaxObjects, d, kind) : d \in 1..MaxObjects, kind \in DefectKinds }

TextInputs ==
    { Wrapped(Document(entries, layout), wrapper) :
         entries \in EntryLists, layout \in Layouts, wrapper \in Wrappers }
    \cup { Wrapped(SlippedDocument(EntryList(n, 0, "none"), slip), wrapper) :
             n \in 2..MaxObjects, slip \in Slips, wrapper \in Wrappers }
    \cup { Wrapped(Truncated(EntryList(n, 0, "none"), layout, cut), wrapper) :
             n \in 0..MaxObjects, layout \in Layouts, cut \in Cuts, wrapper \in Wrappers }

TextInit ==
    /\ model_infos = << >>
    /\ platforms = {}
    /\ provider_mode = [w \in AllPlatforms |-> "any"]
    /\ InitRun
    /\ InitPipelineIdle
    /\ InitTracker
    /\ response = NoResponse
    /\ parse_outcome = NotParsed
    /\ response_text \in TextInputs
    /\ InitCleanerIdle

\* one call of _parse_keywords_response(response) on a text
ParseText ==
    /\ ~parse_outcome.called
    /\ response' = DecodeResponse(response_text)
    /\ parse_outcome' = [called |-> TRUE,
                         raised |-> ParseKeywordsResponse(response').exc,
                         value |-> ParseKeywordsResponse(response').value]
    /\ UNCHANGED << schedVars, exclVars, promptVars, attemptVars, lockVars, retryVars, reportVars,
                    response_text, keyword_obj,
                    cleaned >>

TextNext == ParseText

TextSpec == TextInit /\ [][TextNext]_vars

\* ---- the keywords explored by _clean_keyword ----
\* blank, bracket, the two separators, a Latin letter, a digit, a kana letter
\* and an emoji
KeywordAlphabet == { " ", "(", "-", ".", "v", "1", "U+3042", "U+1F600" }

\* the examples of the documentation, and a brand name
NamedKeywords ==
    { << " ", " ", "D", "e", "e", "p", " ", "S", "e", "e", "k", " ", "R", "1", " ", " " >>,
      << "F", "L", "U", "X", ".", "1" >>,
      << "v", "2", ".", "0" >>,
      << "M", "e", "t", "a" >>,
      << "U+767E", "U+5EA6" >> }

\* _clean_keyword is called on entries _validate_keyword accepted (line 270):
\* the keyword is not blank
KeywordObjects ==
    { [type |-> "dict", keyword |-> Str(k), dimension |-> Str(dimension),
       reason |-> Str(<< "r" >>)] :
         k \in { s \in UNION { [1..m -> KeywordAlphabet] : m \in 1..MaxKeywordLen } :
                    Strip(s, Whitespace) # << >> },
         dimension \in { << "d" >> } }
    \cup { [type |-> "dict", keyword |-> Str(k), dimension |-> Str(dimension),
            reason |-> Str(<< "r" >>)] :
             k \in NamedKeywords, dimension \in { << "d" >>, BrandDimension } }

CleanerInit ==
    /\ model_infos = << >>
    /\ platforms = {}
    /\ provider_mode = [w \in AllPlatforms |-> "any"]
    /\ InitRun
    /\ InitPipelineIdle
    /\ InitTracker
    /\ response = NoResponse
    /\ parse_outcome = NotParsed
    /\ InitTextIdle
    /\ keyword_obj \in KeywordObjects
    /\ cleaned = NotCleaned

\* one call of _clean_keyword(keyword_obj)
Clean ==
    /\ ~cleaned.called
    /\ cleaned' = [called |-> TRUE,
                   keyword |-> CleanKeyword(keyword_obj).keyword,
                   dimension |-> CleanKeyword(keyword_obj).dimension,
                   reason |-> CleanKeyword(keyword_obj).reason]
    /\ UNCHANGED << schedVars, exclVars, promptVars, attemptVars, lockVars, retryVars, reportVars,
                    response, parse_outcome,
                    response_text, keyword_obj >>

CleanerNext == Clean

CleanerSpec == CleanerInit /\ [][CleanerNext]_vars

\* ---- zero enabled providers ----
\* src/keyword_extractor.py lines 218-235: the caller of the run takes its failure
\* branch exactly when the returned list is empty
CallerSeesFailure == mainPc = "returned" /\ returned = << >>

FirstSeenAt(freq, kw) == CHOOSE i \in DOMAIN freq : freq[i].keyword = kw
\* the call (0 = before the explored calls) in which the count of kw reached 10
ReachedAt(kw) ==
    first_reached[CHOOSE i \in DOMAIN first_reached : first_reached[i].keyword = kw].call
ReachedInRun ==
    { first_reached[i].keyword :
        i \in { x \in DOMAIN first_reached : first_reached[x].call >= 1 } }

\* the entry at index j of the counter map stands before the entry at index i
\* in the order "count descending, first seen first" (the index of an entry is
\* the rank of its keyword among the first recordings)
PrecedesAt(freq, j, i) ==
    \/ freq[j].count > freq[i].count
    \/ freq[j].count = freq[i].count /\ j < i

\* the entries at or above the threshold that stand before the entry at index i
QualifiedBefore(freq, i) ==
    { j \in DOMAIN freq : freq[j].count >= ExclusionThreshold /\ PrecedesAt(freq, j, i) }

Listed(list, kw) == \E p \in DOMAIN list : list[p] = kw

\* C12: after any sequence of update_exclusion_queue calls the exclusion list has
\* at most 50 entries, no duplicates, and only keywords whose count is >= 10.
C12_ListBoundedDistinctFrequent ==
    /\ Len(excluded_keywords) <= 50
    /\ \A p, q \in DOMAIN excluded_keywords :
          p # q => excluded_keywords[p] # excluded_keywords[q]
    /\ \A p \in DOMAIN excluded_keywords :
          FrequencyGet(keyword_frequency, excluded_keywords[p]) >= 10

\* C12 witness: after a call, more than 50 keywords have count >= 10 and the
\* list is full.
C12_Witness ==
    /\ record_calls >= 1
    /\ Len(HighFreq(keyword_frequency)) > 50
    /\ Len(excluded_keywords) = 50

\* C13 as stated: a keyword is absent from the list while its count is below 10
\* and present in the list right after the call that brings its count to 10.
C13_PresentRightAfterTenth ==
    [][ \A i \in DOMAIN keyword_frequency' :
          /\ keyword_frequency'[i].count < 10
                => ~Listed(excluded_keywords', keyword_frequency'[i].keyword)
          /\ ( FrequencyGet(keyword_frequency, keyword_frequency'[i].keyword) < 10
               /\ keyword_frequency'[i].count >= 10 )
                => Listed(excluded_keywords', keyword_frequency'[i].keyword)
      ]_vars

\* C13 amended: a keyword is absent from the list while its count is below 10;
\* right after the call that brings its count to 10 it is in the list exactly
\* when fewer than 50 keywords with count >= 10 stand before it in the order
\* "count descending, first seen first"; otherwise the cap keeps it out.
C13_PresentUnlessCapped ==
    [][ \A i \in DOMAIN keyword_frequency' :
          /\ keyword_frequency'[i].count < 10
                => ~Listed(excluded_keywords', keyword_frequency'[i].keyword)
          /\ ( FrequencyGet(keyword_frequency, keyword_frequency'[i].keyword) < 10
               /\ keyword_frequency'[i].count >= 10 )
                => ( Listed(excluded_keywords', keyword_frequency'[i].keyword)
                     <=> Cardinality(QualifiedBefore(keyword_frequency', i)) < 50 )
      ]_vars

\* C13 witness: of two keywords whose count was brought to 10 by explored calls,
\* one is in the list and the other is kept out by the cap.
C13_Witness ==
    \E a, b \in ReachedInRun :
        /\ FrequencyGet(keyword_frequency, a) = 10
        /\ FrequencyGet(keyword_frequency, b) = 10
        /\ Listed(excluded_keywords, a)
        /\ ~Listed(excluded_keywords, b)

\* C14: the list is ordered by count descending, equal counts in first-seen
\* order (every entry stands before its successor in that order), and holds the
\* first 50 keywords of that order among those with count >= 10.
C14_OrderedByCountThenFirstSeen ==
    /\ \A p \in DOMAIN excluded_keywords :
          /\ Listed([i \in DOMAIN keyword_frequency |-> keyword_frequency[i].keyword],
                    excluded_keywords[p])
          /\ p < Len(excluded_keywords)
                => PrecedesAt(keyword_frequency,
                              FirstSeenAt(keyword_frequency, excluded_keywords[p]),
                              FirstSeenAt(keyword_frequency, excluded_keywords[p + 1]))
    /\ \A i \in DOMAIN keyword_frequency :
          Listed(excluded_keywords, keyword_frequency[i].keyword)
             <=> ( /\ keyword_frequency[i].count >= 10
                   /\ Cardinality(QualifiedBefore(keyword_frequency, i)) < 50 )

\* C14 witness: more than 50 keywords qualify, and a keyword that was below the
\* threshold at the start now leads the list with a count above the others.
C14_Witness ==
    /\ Len(HighFreq(keyword_frequency)) > 50
    /\ excluded_keywords # << >>
    /\ excluded_keywords[1] \in ReachedInRun
    /\ \E p \in DOMAIN excluded_keywords :
          FrequencyGet(keyword_frequency, excluded_keywords[p])
             < FrequencyGet(keyword_frequency, excluded_keywords[1])

\* listed entries p < q whose keywords have the same count
TiedPair(p, q) ==
    /\ p < q
    /\ keyword_frequency[FirstSeenAt(keyword_frequency, excluded_keywords[p])].count
          = keyword_frequency[FirstSeenAt(keyword_frequency, excluded_keywords[q])].count

\* C15 as stated: keywords with equal counts appear in the list in the order in
\* which they first reached the count 10: none is listed before a keyword that
\* reached the count 10 in an earlier call.
C15_TiesByThresholdOrder ==
    \A p, q \in DOMAIN excluded_keywords :
        TiedPair(p, q)
           => ReachedAt(excluded_keywords[p]) <= ReachedAt(excluded_keywords[q])

\* C15 amended: keywords with equal counts appear in the list in the order in
\* which they were first recorded, whichever of them reached the count 10 first.
C15_TiesByFirstSeen ==
    \A p, q \in DOMAIN excluded_keywords :
        TiedPair(p, q)
           => FirstSeenAt(keyword_frequency, excluded_keywords[p])
                < FirstSeenAt(keyword_frequency, excluded_keywords[q])

\* C15 witness: two listed keywords with equal counts, the one listed first
\* having reached the count 10 in a later call than the other.
C15_Witness ==
    \E p, q \in DOMAIN excluded_keywords :
        /\ TiedPair(p, q)
        /\ ReachedAt(excluded_keywords[q]) < ReachedAt(excluded_keywords[p])


\* ---- exclusion tracker inside the scheduler ----
ResponseKeywords ==
    UNION { { r.parsed[i] : i \in DOMAIN r.parsed } : r \in Responses }

\* number of records with keyword k in one result / in a list of results
OccurrencesIn(keywords, k) ==
    Cardinality({ i \in DOMAIN keywords : keywords[i] = k })

RECURSIVE OccurrencesOver(_, _)
OccurrencesOver(rs, k) ==
    IF rs = << >> THEN 0
    ELSE OccurrencesIn(Head(rs).keywords, k) + OccurrencesOver(Tail(rs), k)

\* the counter map after the first n results of the run have been recorded
RECURSIVE FrequencyAfter(_, _)
FrequencyAfter(freq, rs) ==
    IF rs = << >> THEN freq
    ELSE FrequencyAfter(RecordAll(freq, Head(rs).keywords), Tail(rs))

C16_CountsMatchResults ==
    /\ record_calls = Len(results)
    /\ \A k \in ResponseKeywords :
          FrequencyGet(keyword_frequency, k) = OccurrencesOver(results, k)

C16_RecordedWithAppend ==
    /\ \A k \in ResponseKeywords :
          FrequencyGet(keyword_frequency', k) >= FrequencyGet(keyword_frequency, k)
    /\ (record_calls' # record_calls \/ keyword_frequency' # keyword_frequency)
          => /\ record_calls' = record_calls + 1
             /\ Len(results') = Len(results) + 1
             /\ \E w \in AllPlatforms : pc[w] = "success" /\ pc'[w] = "get"

\* C16: on a fresh extractor, update_exclusion_queue is called exactly once per
\* accepted result, in the step that appends the result, and never for a failed
\* attempt: in every state the count of every keyword equals the number of
\* records with that keyword over all appended results, and no count decreases.
C16_OncePerAcceptedResult ==
    [](C16_CountsMatchResults) /\ [][C16_RecordedWithAppend]_vars

\* C16 witness: two results are appended, a keyword occurring in both has count
\* 2, and an attempt of the run has failed.
C16_Witness ==
    /\ Len(results) = 2
    /\ \E k \in ResponseKeywords : FrequencyGet(keyword_frequency, k) = 2
    /\ \E i \in Items : failed[i] >= 1

\* the exclusion lists derived from the counter map after each whole number of
\* recorded results of the run
WholeViews ==
    { ExclusionView(FrequencyAfter(frequency_at_start, SubSeq(results, 1, n))) :
        n \in 0..Len(results) }

\* C17: no torn update is observable: in every state in which a coroutine can
\* run, the exclusion list is the derived view of the counter map, and the list
\* a worker read for its prompt is the derived view of the counter map after
\* some whole number of completed record operations.
C17_NoTornRead ==
    /\ excluded_keywords = ExclusionView(keyword_frequency)
    /\ keyword_frequency = FrequencyAfter(frequency_at_start, results)
    /\ \A w \in AllPlatforms :
          pc[w] \in {"call", "backoff", "success", "failure"}
             => prompt_exclusions[w] \in WholeViews

\* C17 witness: a worker waits for its provider call with a prompt it built from
\* one list, and a record operation of another worker has since changed the list.
C17_Witness ==
    \E w \in AllPlatforms :
        /\ pc[w] = "call"
        /\ prompt_exclusions[w] # excluded_keywords
        /\ prompt_exclusions[w] # << >>
        /\ record_calls >= 1

\* C18: the exclusion list embedded in the prompt of an attempt is the list
\* derived from all results accepted before the prompt was built, on every
\* provider.
C18_PromptReflectsAccepted ==
    [][ \A w \in AllPlatforms :
          (pc[w] = "extract" /\ pc'[w] = "call")
             => prompt_exclusions'[w] =
                   ExclusionView(FrequencyAfter(frequency_at_start, results)) ]_vars

\* C18 witness: a prompt was built after a result had been accepted, and its
\* exclusion list holds a keyword that the accepted result brought to the
\* threshold.
C18_Witness ==
    \E w \in AllPlatforms :
        /\ pc[w] = "call"
        /\ results # << >>
        /\ \E p \in DOMAIN prompt_exclusions[w] :
              prompt_exclusions[w][p] \in ReachedInRun


\* ---- response parser: properties ----
RawKeywords == response.data.keywords.items
ListResponse ==
    /\ response.loads = "ok"
    /\ response.data.type = "object"
    /\ response.data.keywords.type = "list"

\* an entry that is an object whose three members are non-blank strings
WellFormed(e) ==
    /\ e.type = "dict"
    /\ \A member \in { e.keyword, e.dimension, e.reason } :
          member.type = "str" /\ \E i \in DOMAIN member.text : member.text[i] \notin Whitespace

\* C19: _parse_keywords_response never raises: for every response it returns a
\* list, and the empty list when the text is no JSON, the JSON is no object, or
\* the object has no list under `keywords`.
C19_NeverRaises ==
    parse_outcome.called =>
        /\ parse_outcome.raised = "none"
        /\ DOMAIN parse_outcome.value = 1..Len(parse_outcome.value)
        /\ ~ListResponse => parse_outcome.value = << >>

\* C19 witness: a parsed response whose `keywords` list of at least 3 entries
\* holds an entry that makes the validation raise (null, or a member that is
\* no string).
C19_Witness ==
    /\ parse_outcome.called
    /\ ListResponse
    /\ Len(RawKeywords) >= 3
    /\ \E i \in DOMAIN RawKeywords :
          i <= 8 /\ (RawKeywords[i].type = "null" \/ RawKeywords[i].dimension.type = "other")

\* C20: the count gate works on the raw `keywords` array, before validation:
\* fewer than 3 entries give the empty list; of more than 8 entries only the
\* first 8 are looked at, so at most 8 records are returned, none from position
\* 9 or later, no more than there are well-formed entries among the first 8,
\* and exactly the first 8 in order when these are valid and distinct.
C20_CountGate ==
    (parse_outcome.called /\ ListResponse) =>
        /\ Len(RawKeywords) < 3 => parse_outcome.value = << >>
        /\ Len(parse_outcome.value) <= 8
        /\ \A p \in DOMAIN parse_outcome.value :
              \A i \in 9..Len(RawKeywords) :
                  parse_outcome.value[p].reason # Strip(RawKeywords[i].reason.text, Whitespace)
        /\ Len(parse_outcome.value)
              <= Cardinality({ i \in DOMAIN RawKeywords : i <= 8 /\ WellFormed(RawKeywords[i]) })
        /\ ( Len(RawKeywords) > 8 /\ \A i \in 1..8 : RawKeywords[i] = ValidEntry(i) )
              => parse_outcome.value =
                    [i \in 1..8 |-> [keyword |-> << "k", LowerCase[i] >>,
                                     dimension |-> << "d" >>,
                                     reason |-> << "r", LowerCase[i] >>]]

\* C20 witness: a parsed response with 10 valid, distinct entries, of which 8
\* records are returned.
C20_Witness ==
    /\ parse_outcome.called
    /\ ListResponse
    /\ Len(RawKeywords) = 10
    /\ \A i \in 1..10 : RawKeywords[i] = ValidEntry(i)
    /\ Len(parse_outcome.value) = 8

\* ---- the parser on response texts ----
\* the text is JSON as it stands, an object with a list under `keywords`
DirectList ==
    /\ JsonLoads(Strip(response_text, WhitespaceTokens)).loads = "ok"
    /\ ListResponse

\* the normalization filter of a keyword: whitelisted characters only, no two
\* '-' and no two '.' in a row, neither '-' nor '.' at either end
PassesFilter(k) ==
    /\ \A i \in DOMAIN k : Whitelisted(k[i])
    /\ \A i \in 1..(Len(k) - 1) : ~(k[i] = k[i + 1] /\ k[i] \in { "-", "." })
    /\ k # << >> => (k[1] \notin { "-", "." } /\ k[Len(k)] \notin { "-", "." })

\* the three members of an entry as they stand in the response
AsWritten(e) ==
    [keyword |-> e.keyword.text, dimension |-> e.dimension.text, reason |-> e.reason.text]

\* 3 to 8 entries, all valid, with normalized and pairwise distinct keywords
ValidNormalDistinct ==
    /\ Len(RawKeywords) \in 3..8
    /\ \A i \in DOMAIN RawKeywords :
          WellFormed(RawKeywords[i]) /\ PassesFilter(RawKeywords[i].keyword.text)
    /\ \A i, j \in DOMAIN RawKeywords :
          i # j => RawKeywords[i].keyword.text # RawKeywords[j].keyword.text

BrandEntry(e) == e.dimension.text = BrandDimension /\ e.keyword.text \in BrandNames
Trimmed(t) == t = << >> \/ (t[1] \notin Whitespace /\ t[Len(t)] \notin Whitespace)

\* C21 as stated: well-formed JSON {"keywords": [e1..en]} with 3 <= n <= 8 valid,
\* normalized entries of pairwise distinct keywords comes back as exactly
\* e1..en, in order, with keyword, dimension and reason unchanged.
C21_ReturnedUnchanged ==
    (parse_outcome.called /\ DirectList /\ ValidNormalDistinct) =>
        parse_outcome.value = [i \in DOMAIN RawKeywords |-> AsWritten(RawKeywords[i])]

\* C21 amended: such a response comes back as n records in input order; record
\* i is ei with dimension and reason trimmed, and with the brand suffix added
\* to the keyword when ei is a brand name under the brand dimension, given
\* that no such brand entry takes the keyword of another entry by the suffix.
\* So the entries come back unchanged exactly when none of them is such a
\* brand entry and no dimension or reason has whitespace around it.
C21_ReturnedTrimmedAndBranded ==
    (parse_outcome.called /\ DirectList /\ ValidNormalDistinct
        /\ \A i, j \in DOMAIN RawKeywords :
              BrandEntry(RawKeywords[i]) =>
                  RawKeywords[j].keyword.text # RawKeywords[i].keyword.text \o BrandSuffix) =>
        /\ parse_outcome.value =
              [i \in DOMAIN RawKeywords |->
                  [keyword |-> IF BrandEntry(RawKeywords[i])
                               THEN RawKeywords[i].keyword.text \o BrandSuffix
                               ELSE RawKeywords[i].keyword.text,
                   dimension |-> Strip(RawKeywords[i].dimension.text, Whitespace),
                   reason |-> Strip(RawKeywords[i].reason.text, Whitespace)]]
        /\ parse_outcome.value = [i \in DOMAIN RawKeywords |-> AsWritten(RawKeywords[i])]
              <=> \A i \in DOMAIN RawKeywords :
                     /\ ~BrandEntry(RawKeywords[i])
                     /\ Trimmed(RawKeywords[i].dimension.text)
                     /\ Trimmed(RawKeywords[i].reason.text)

\* C21 witness: a parsed well-formed response of valid, normalized, distinct
\* entries, one of them a brand name under the brand dimension, that came back
\* with as many records as entries.
C21_Witness ==
    /\ parse_outcome.called
    /\ DirectList
    /\ ValidNormalDistinct
    /\ \E i \in DOMAIN RawKeywords : BrandEntry(RawKeywords[i])
    /\ Len(parse_outcome.value) = Len(RawKeywords)

\* C22: for a response cut inside an entry of the `keywords` array after at
\* least one complete entry, fenced or not, the repaired text (slice, common
\* repairs, truncation repair) is well-formed JSON whose `keywords` array is
\* exactly the complete entries.
C22_TruncatedRepaired ==
    \A n \in 1..MaxObjects, layout \in Layouts, cut \in Cuts, wrapper \in Wrappers :
        ( /\ parse_outcome.called
          /\ response_text = Wrapped(Truncated(EntryList(n, 0, "none"), layout, cut), wrapper) )
        => JsonLoads(RepairedText(response_text)) =
              [loads |-> "ok",
               data |-> [type |-> "object",
                         keywords |-> [type |-> "list", items |-> EntryList(n, 0, "none")]]]

\* ---- entries of the `keywords` array ----
\* the entries the count gate lets through
GatedKeywords == SubSeq(RawKeywords, 1, IF Len(RawKeywords) > 8 THEN 8 ELSE Len(RawKeywords))

\* C23: an entry that lacks keyword, dimension or reason, or has one of them
\* blank or of no usable type, is dropped on its own: the parser returns what
\* it returns for the same list without the entries that are not well-formed.
C23_DroppedOnItsOwn ==
    (parse_outcome.called /\ ListResponse /\ Len(RawKeywords) >= 3) =>
        parse_outcome.value = CleanLoop(SelectSeq(GatedKeywords, WellFormed), << >>).value

\* C24: every record the parser returns has keyword, dimension and reason
\* non-empty after trimming.
C24_FieldsNonEmpty ==
    parse_outcome.called =>
        \A p \in DOMAIN parse_outcome.value :
            /\ Strip(parse_outcome.value[p].keyword, Whitespace) # << >>
            /\ Strip(parse_outcome.value[p].dimension, Whitespace) # << >>
            /\ Strip(parse_outcome.value[p].reason, Whitespace) # << >>

\* ---- keyword normalization ----
RawKeyword == keyword_obj.keyword.text
BrandKeyword == BrandEntry(keyword_obj)

\* C25 as stated: a returned keyword passes the normalization filter (only
\* whitelisted characters, so no whitespace and no bracket, no two '-' and no
\* two '.' in a row, neither '-' nor '.' at either end), and a keyword that
\* passes the filter is left unchanged by the normalization.
C25_FilterAndUnchanged ==
    cleaned.called =>
        /\ PassesFilter(cleaned.keyword)
        /\ \A i \in DOMAIN cleaned.keyword : cleaned.keyword[i] \notin Whitespace \cup Brackets
        /\ PassesFilter(RawKeyword) => cleaned.keyword = RawKeyword

\* C25 amended: a returned keyword passes the filter; a keyword that passes the
\* filter is left unchanged unless it is a brand name under the brand
\* dimension, which gets the brand suffix; normalizing a returned keyword
\* again, under the same dimension, leaves it unchanged.
C25_FilterAndUnchangedButBrands ==
    cleaned.called =>
        /\ PassesFilter(cleaned.keyword)
        /\ \A i \in DOMAIN cleaned.keyword : cleaned.keyword[i] \notin Whitespace \cup Brackets
        /\ PassesFilter(RawKeyword) =>
              cleaned.keyword = IF BrandKeyword THEN RawKeyword \o BrandSuffix ELSE RawKeyword
        /\ CleanKeywordText(cleaned.keyword, keyword_obj.dimension.text) = cleaned.keyword

\* C25 witness: a keyword that does not pass the filter (a bracket, a blank
\* and a doubled separator) has been normalized to a non-empty keyword.
C25_Witness ==
    /\ cleaned.called
    /\ \E i \in DOMAIN RawKeyword : RawKeyword[i] \in Brackets \cup Whitespace
    /\ \E i \in 1..(Len(RawKeyword) - 1) :
          RawKeyword[i] = RawKeyword[i + 1] /\ RawKeyword[i] \in { "-", "." }
    /\ cleaned.keyword # << >>

\* letters and digits of the whitelist
Alphanumeric == AsciiLetters \cup AsciiDigits \cup CjkUnified
Alphanumerics(t) == SelectSeq(t, LAMBDA c : c \in Alphanumeric)
\* the positions of the letters and digits of the raw keyword, in order
AlphanumericAt == SelectSeq([i \in DOMAIN RawKeyword |-> i], LAMBDA i : RawKeyword[i] \in Alphanumeric)
\* the letters and digits after which the raw keyword has whitespace before the next
Gaps == { k \in 1..(Len(AlphanumericAt) - 1) : AlphanumericAt[k + 1] > AlphanumericAt[k] + 1 }
PlaceOf(k) == k + Cardinality({ g \in Gaps : g < k })
DeepSeekR1 ==
    << " ", " ", "D", "e", "e", "p", " ", "S", "e", "e", "k", " ", "R", "1", " ", " " >>

VersionToken ==
    /\ RawKeyword # << >>
    /\ \A i \in DOMAIN RawKeyword : Whitelisted(RawKeyword[i])
    /\ \/ RawKeyword[1] \in { "v", "V" } /\ \E i \in DOMAIN RawKeyword : RawKeyword[i] = "."
       \/ \E d \in 2..(Len(RawKeyword) - 1) :
             /\ RawKeyword[d] = "."
             /\ \A i \in 1..(d - 1) : RawKeyword[i] \in AsciiLetters \cup AsciiDigits
             /\ \A i \in (d + 1)..Len(RawKeyword) : RawKeyword[i] \in AsciiDigits

OtherScriptLetters == { "U+3042", "U+0436", "U+00E9" }
Letters == AsciiLetters \cup CjkUnified \cup OtherScriptLetters
LettersOf(t) == SelectSeq(t, LAMBDA c : c \in Letters)

\* C28 as stated: no letter of the input keyword, whatever its script, is
\* removed; only what is no letter, digit, '-' or '.' is removed.
C28_LettersOfAnyScriptKept ==
    (cleaned.called /\ ~BrandKeyword) => LettersOf(cleaned.keyword) = LettersOf(RawKeyword)

\* C28 amended: the letters kept are a-z, A-Z and the CJK ideographs
\* U+4E00..U+9FA5, and the digits 0-9 are kept; a letter of another script
\* (kana, Cyrillic, accented Latin) is removed like a symbol.
C28_LatinAndCjkLettersKept ==
    (cleaned.called /\ ~BrandKeyword) =>
        /\ Alphanumerics(cleaned.keyword) = Alphanumerics(RawKeyword)
        /\ \A i \in DOMAIN cleaned.keyword : cleaned.keyword[i] \notin OtherScriptLetters
        /\ \A i \in DOMAIN cleaned.keyword : cleaned.keyword[i] \in Alphanumeric \cup { "-", "." }

\* C28 witness: a keyword with a kana letter and a Latin letter has been
\* normalized; the Latin letter is what is left.
C28_Witness ==
    /\ cleaned.called
    /\ ~BrandKeyword
    /\ \E i, j \in DOMAIN RawKeyword : RawKeyword[i] = "U+3042" /\ RawKeyword[j] = "v"
    /\ cleaned.keyword = << "v" >>

\* the normalized keyword of entry i of the gated list, and the entry record p
\* of the result was made from (the reasons of the explored entries differ)
NormalizedAt(i) == CleanKeyword(GatedKeywords[i]).keyword
EntryOf(p) ==
    CHOOSE i \in DOMAIN GatedKeywords :
        Strip(GatedKeywords[i].reason.text, Whitespace) = parse_outcome.value[p].reason
AllWellFormed == \A i \in DOMAIN GatedKeywords : WellFormed(GatedKeywords[i])

\* C29: no two records of a result have the same keyword, compared exactly;
\* of the entries with one normalized keyword the first is kept, so entries
\* that differ in letter case only are all kept; the records are in input order.
C29_FirstOfEachKeyword ==
    (parse_outcome.called /\ ListResponse /\ Len(RawKeywords) >= 3 /\ AllWellFormed) =>
        /\ \A p, q \in DOMAIN parse_outcome.value :
              p # q => parse_outcome.value[p].keyword # parse_outcome.value[q].keyword
        /\ \A p \in DOMAIN parse_outcome.value :
              parse_outcome.value[p].keyword = NormalizedAt(EntryOf(p))
        /\ { EntryOf(p) : p \in DOMAIN parse_outcome.value }
              = { i \in DOMAIN GatedKeywords : \A j \in 1..(i - 1) : NormalizedAt(j) # NormalizedAt(i) }
        /\ \A p, q \in DOMAIN parse_outcome.value : p < q => EntryOf(p) < EntryOf(q)

\* C29 witness: of the entries "ka" and "Ka" both records were returned.
C29_Witness ==
    /\ parse_outcome.called
    /\ ListResponse
    /\ AllWellFormed
    /\ \E p, q \in DOMAIN parse_outcome.value :
          /\ p < q
          /\ parse_outcome.value[p].keyword = << "k", "a" >>
          /\ parse_outcome.value[q].keyword = << "K", "a" >>

\* ---- the locks of the scheduler ----
Suspended(w) == pc[w] \in {"delay", "call", "backoff", "wait_lock", "wait_progress"}

\* C30: no worker holds a lock while its provider call or a sleep is pending,
\* no worker holds both locks at once, and no state is a deadlock on a lock:
\* a held lock is held by the worker that is running, which is not suspended.
C30_LocksNotHeldAcrossAwait ==
    \A w \in AllPlatforms :
        /\ Suspended(w) => (lock # w /\ progress_lock # w)
        /\ ~(lock = w /\ progress_lock = w)
        /\ (lock = w \/ progress_lock = w) => (running = w /\ ~Suspended(w))
        /\ pc[w] \notin {"wait_lock", "wait_progress"}

\* C30 witness: a worker holds `lock` while the provider call of another
\* worker is pending.
C30_Witness ==
    \E w, v \in AllPlatforms :
        /\ lock = w
        /\ pc[w] = "locked"
        /\ pc[v] = "call"

\* ---- the completion barrier and the hand-over of the result list ----
\* queue.join() returns when no unit of work is unfinished (line 354)
BarrierSatisfied ==
    /\ mainPc # "start"
    /\ platform_count > 0
    /\ (queue.released \/ queue.unfinished = 0)

\* a worker that holds nothing a cancellation could lose
Idle(w) ==
    /\ pc[w] \in {"none", "created", "get", "done", "cancelled"}
    /\ task[w] = NoTask
    /\ result[w] = NoneResult

\* once the workers are cancelled the shared list does not change
HandedOverUntouched ==
    mainPc \in {"gather", "returned"} => results' = results

\* C31: when the completion barrier is satisfied the queue is empty and no worker
\* holds a task or is inside an attempt, so cancelling the workers discards no
\* computed result; the list handed to the caller is the shared list and it is
\* never modified after the hand-over.
C31_BarrierLeavesNothingBehind ==
    /\ [](BarrierSatisfied =>
             /\ queue.items = << >>
             /\ queue.unfinished = 0
             /\ \A w \in AllPlatforms : Idle(w))
    /\ [](mainPc = "returned" /\ platform_count > 0 => returned = results)
    /\ [][HandedOverUntouched]_vars

\* a run that accepted one item and dropped another has been handed over
C31_Witness ==
    /\ mainPc = "returned"
    /\ BarrierSatisfied
    /\ Len(returned) >= 1
    /\ \E i \in Items : outcome[i] = "dropped"

\* C32: when an item is dropped as a terminal failure every enabled provider has
\* attempted it: its P failed attempts were made by P distinct providers.
C32_DroppedAfterEveryProvider ==
    \A i \in Items :
        outcome[i] = "dropped" =>
            /\ failed[i] = platform_count
            /\ attempted_by[i] = platforms

\* a worker that has left its loop, or was cancelled before it ever ran
Terminated(w) == pc[w] \in {"done", "cancelled"}

\* get_nowait on an empty queue ends the worker, whatever the others hold
ExitsOnEmptyQueue ==
    \A w \in AllPlatforms :
        /\ (pc[w] = "get" /\ pc'[w] # "get" /\ queue.items = << >>) => pc'[w] = "done"
        /\ (pc[w] = "get" /\ pc'[w] = "done") => queue.items = << >>
        /\ pc[w] = "done" => pc'[w] = "done"

\* C33: a worker exits for good the first time it sees an empty queue, even while
\* other workers hold tasks that may be re-enqueued; yet whenever the queue is
\* non-empty or a task is in flight, some worker has not terminated, so a
\* re-enqueued item is never stranded.
C33_ExitOnEmptyNeverStrands ==
    /\ [][ExitsOnEmptyQueue]_vars
    /\ [](platform_count >= 1 /\ mainPc # "start" /\ (queue.items # << >> \/ InFlight # {})
             => \E w \in platforms : ~Terminated(w))

\* a worker has exited and the task another worker held has been re-enqueued
C33_Witness ==
    /\ \E w \in platforms : pc[w] = "done"
    /\ \E k \in DOMAIN queue.items : queue.items[k].retry_count >= 1

\* ---- the parser's list as the worker sees it ----
\* lines 221-231 and 433: what the attempt returns for a response that parsed to `value`
AttemptOf(value) ==
    SinglePlatformResult([kind |-> "text", parsed |-> value, rate_limited |-> FALSE])

\* every entry the loop looks at is dropped by the validation
AllDropped ==
    /\ ListResponse
    /\ Len(RawKeywords) >= 3
    /\ \A i \in DOMAIN RawKeywords : i <= 8 => ~WellFormed(RawKeywords[i])
    /\ \A i \in DOMAIN RawKeywords :
          i <= 8 => RawKeywords[i].type # "null" /\ RawKeywords[i].keyword.type # "other"

\* the queue after a failed attempt on the only task (item 1, retry_count rc) with
\* P providers: the task comes back with one more retry used, or not at all
FailureUsesRetry ==
    \A rc \in 0..MaxProviders, P \in 1..MaxProviders :
        LET t == [model_info |-> 1, retry_count |-> rc]
            held == QueueGet(QueuePut(EmptyQueue, t))
        IN  RetryAllowed(rc, P) =>
                Requeue(held, t).items = << [model_info |-> 1, retry_count |-> rc + 1] >>

\* C34: an attempt is a success iff the parser returns at least one record.  The
\* 3-entry minimum is checked on the raw entries before validation and
\* deduplication, so an accepted result holds between 1 and 8 records (possibly
\* fewer than 3), and an attempt whose entries are all dropped is a failure that
\* uses one retry.
C34_SuccessIffRecord ==
    parse_outcome.called =>
        /\ AttemptOf(parse_outcome.value).is_none <=> parse_outcome.value = << >>
        /\ ~AttemptOf(parse_outcome.value).is_none =>
              /\ AttemptOf(parse_outcome.value).keywords = parse_outcome.value
              /\ Len(parse_outcome.value) \in 1..8
              /\ ListResponse /\ Len(RawKeywords) >= 3
        /\ AllDropped => AttemptOf(parse_outcome.value).is_none /\ FailureUsesRetry

\* a response of at least 3 entries that is accepted with a single record
C34_Witness ==
    /\ parse_outcome.called
    /\ ListResponse
    /\ Len(RawKeywords) >= 3
    /\ Len(parse_outcome.value) = 1
    /\ ~AttemptOf(parse_outcome.value).is_none

\* ---- which lock guards which shared state ----
\* a step changes the result list or the exclusion counters and list
MutatesResults ==
    \/ results' # results
    \/ keyword_frequency' # keyword_frequency
    \/ excluded_keywords' # excluded_keywords

\* a step changes the progress counter
MutatesProgress == completed_count' # completed_count

\* the worker taking the step holds the lock
HeldByRunning(l) == l # Unlocked /\ l = running

\* C35 as stated: every mutation of the result list, of the exclusion counters
\* and list, and of the progress counter is made while the mutating worker holds
\* one and the same lock.
C35_OneLockForAll ==
    [][(MutatesResults \/ MutatesProgress) => HeldByRunning(lock)]_vars

\* C35 amended: the result list and the exclusion counters and list are mutated
\* only by a worker holding `lock`; the progress counter is mutated only by a
\* worker holding `progress_lock`, a second lock, and at that moment `lock` is
\* free.
C35_EachGuardedByItsLock ==
    /\ [][MutatesResults => HeldByRunning(lock)]_vars
    /\ [][MutatesProgress => HeldByRunning(progress_lock) /\ lock = Unlocked]_vars

\* a worker that appended its result under `lock` is about to count it under
\* `progress_lock`
C35_Witness ==
    \E w \in platforms :
        /\ pc[w] = "counting"
        /\ progress_lock = w
        /\ lock = Unlocked
        /\ \E k \in DOMAIN results : results[k].model_url = task[w].model_info
        /\ completed_count >= 1

\* ---- the step-by-step worker on an extractor that has served earlier runs ----
LockReuseSpec == ReuseInit /\ [][LockNext]_vars

\* worker w builds its prompt (line 180) and issues the provider call
BuildsPrompt(w) == pc[w] = "extract" /\ pc'[w] = "call"

\* C36 as stated: whenever a worker reads the exclusion list to build a prompt it
\* holds the lock that guards the result append and the exclusion update.
C36_PromptReadUnderLock ==
    [][ \A w \in AllPlatforms : BuildsPrompt(w) => lock = w ]_vars

\* C36 amended: a worker reads the exclusion list for its prompt without holding
\* any lock, at a moment when no worker holds one; the list it reads is still
\* the one derived from the current counters, cut to 50 keywords.
C36_PromptReadWithoutLock ==
    [][ \A w \in AllPlatforms :
          BuildsPrompt(w) =>
             /\ lock = Unlocked
             /\ progress_lock = Unlocked
             /\ lock' = Unlocked
             /\ prompt_exclusions'[w] = First(ExclusionView(keyword_frequency), ExclusionCap) ]_vars

\* a prompt was built from a list that an update made under the lock during this
\* run has extended
C36_Witness ==
    \E w \in AllPlatforms :
        /\ pc[w] = "call"
        /\ lock = Unlocked
        /\ record_calls >= 1
        /\ prompt_exclusions[w] = excluded_keywords
        /\ Len(prompt_exclusions[w]) > Len(ExclusionView(frequency_at_start))

\* ---- the pause after a rate-limited failure ----
\* the pause of worker w begins, ends
PauseBegins(w) == pc[w] # "backoff" /\ pc'[w] = "backoff"
PauseEnds(w) == pc[w] = "backoff" /\ pc'[w] # "backoff"

\* while worker w pauses, its item is its own: not queued, held by nobody else,
\* neither re-enqueued nor dropped yet
OwnedWhilePaused(w) ==
    pc[w] = "backoff" =>
        /\ task[w] # NoTask
        /\ attempt_kind[w] = "rate_limit"
        /\ result[w] = NoneResult
        /\ QueuedCopies(task[w].model_info) = 0
        /\ Holders(task[w].model_info) = {w}
        /\ outcome[task[w].model_info] = "none"
        /\ failed[task[w].model_info] = task[w].retry_count

\* the pause follows a rate-limited call and nothing else; it ends in the failure
\* branch of the worker loop with the task still held, so the re-enqueue or drop
\* and the next dequeue come after it; any other failure goes there at once
PauseSteps(w) ==
    /\ PauseBegins(w) => pc[w] = "call" /\ attempt_kind'[w] = "rate_limit"
    /\ PauseEnds(w) =>
          /\ pc'[w] = "failure"
          /\ task'[w] = task[w]
          /\ queue' = queue
          /\ failed' = failed
    /\ (pc[w] = "call" /\ pc'[w] # "call") =>
          /\ attempt_kind'[w] = "rate_limit" <=> pc'[w] = "backoff"
          /\ attempt_kind'[w] \in {"parse", "error"} <=> pc'[w] = "failure"
    /\ (pc[w] = "get" /\ task'[w] # task[w]) => pc[w] # "backoff"

\* C37: after a rate-limited failure the worker pauses before the failure reaches
\* the worker loop: the pause ends before the item is re-enqueued or dropped and
\* before the worker's next dequeue, the item stays owned by the paused worker
\* for the whole pause, and a failure of any other kind is reported with no pause.
C37_PauseBeforeFailureHandling ==
    /\ [](\A w \in AllPlatforms : OwnedWhilePaused(w))
    /\ [][\A w \in AllPlatforms : PauseSteps(w)]_vars

\* a worker pauses on a task that already failed once, while another worker is
\* in a provider call
C37_Witness ==
    \E w \in platforms, v \in platforms :
        /\ pc[w] = "backoff"
        /\ task[w].retry_count >= 1
        /\ pc[v] = "call"

\* ---- a long run on one provider: the streak of consecutive failures ----
MaxStreakItems == 8    \* items of the explored run

\* every url is a str, except at most one
StreakItemLists ==
    { [i \in 1..MaxStreakItems |-> [url_ok |-> i # bad]] : bad \in 0..MaxStreakItems }

StreakInit ==
    /\ model_infos \in StreakItemLists
    /\ platforms = {1}
    /\ provider_mode = [w \in AllPlatforms |-> "any"]
    /\ InitRun
    /\ InitPipelineIdle
    /\ InitTracker
    /\ InitParserIdle

StreakSpec == StreakInit /\ [][Next]_vars

\* min(streak * 0.5, 3.0) seconds, in tenths of a second
IsDelayFor(tenths, streak) ==
    \/ streak * 5 <= 30 /\ tenths = streak * 5
    \/ streak * 5 > 30 /\ tenths = 30

\* what one step of worker w does to its streak and when it sleeps
StreakSteps(w) ==
    /\ (pc[w] = "success" /\ pc'[w] # "success") => consecutive_failures'[w] = 0
    /\ (pc[w] \in {"failure", "except"} /\ pc'[w] # pc[w]) =>
          consecutive_failures'[w] = consecutive_failures[w] + 1
    /\ pc[w] \notin {"success", "failure", "except"} =>
          consecutive_failures'[w] = consecutive_failures[w]
    /\ (pc[w] = "get" /\ pc'[w] \notin {"get", "done"}) =>
          /\ task[w] = NoTask /\ task'[w] = Head(queue.items)
          /\ pc'[w] = "delay" <=> consecutive_failures[w] > 2
          /\ pc'[w] = "extract" <=> consecutive_failures[w] <= 2
          /\ pc'[w] = "delay" => IsDelayFor(delay'[w], consecutive_failures[w])
          /\ pc'[w] = "extract" => delay'[w] = delay[w]
    /\ pc[w] # "get" => delay'[w] = delay[w]
    /\ (pc'[w] = "delay" /\ pc[w] # "delay") => pc[w] = "get" /\ attempts' = attempts
    /\ (pc[w] = "delay" /\ pc'[w] # "delay") =>
          pc'[w] = "extract" /\ task'[w] = task[w] /\ attempts' = attempts

\* while worker w sleeps it owns the task it dequeued
OwnedWhileDelayed(w) ==
    pc[w] = "delay" =>
        /\ task[w] # NoTask
        /\ QueuedCopies(task[w].model_info) = 0
        /\ consecutive_failures[w] > 2
        /\ IsDelayFor(delay[w], consecutive_failures[w])

\* C38: a worker's streak of consecutive failures is reset to 0 by every
\* successful attempt and incremented by 1 by every failed attempt; the worker
\* delays before an attempt iff its streak is greater than 2, by
\* min(streak * 0.5, 3.0) seconds, so never more than 3 seconds, and the delay is
\* taken after the dequeue, while the worker already owns the task.
C38_StreakAndDelay ==
    /\ [](\A w \in AllPlatforms : delay[w] <= 30 /\ OwnedWhileDelayed(w))
    /\ [][\A w \in AllPlatforms : StreakSteps(w)]_vars

\* after 7 failures in a row the worker sleeps for the maximum of 3 seconds
C38_Witness ==
    \E w \in platforms :
        /\ pc[w] = "delay"
        /\ consecutive_failures[w] >= 7
        /\ delay[w] = 30
        /\ attempts[task[w].model_info] = 0

\* ---- single-provider extractor (src/ai_extractor.py, extract_keywords) ----
MaxRetries == 3
BaseDelay == 3

\* `sub in text`, text.lower()
Contains(text, sub) ==
    \E i \in 1..(Len(text) - Len(sub) + 1) : SubSeq(text, i, i + Len(sub) - 1) = sub
Lower(text) == [i \in DOMAIN text |-> LowerOf(text[i])]

\* lines 104 and 118: the kind of an exception, read off its message
ClassifyRateLimitOnly(msg) ==
    IF Contains(msg, << "4", "2", "9" >>)
       \/ Contains(Lower(msg), << "r", "a", "t", "e", "_", "l", "i", "m", "i", "t" >>)
    THEN "rate_limit" ELSE "other"
ClassifyError(msg) ==
    IF Contains(msg, << "4", "2", "9" >>)
       \/ Contains(Lower(msg), << "r", "a", "t", "e", "_", "l", "i", "m", "i", "t" >>)
    THEN "rate_limit"
    ELSE IF Contains(Lower(msg), << "t", "i", "m", "e", "o", "u", "t" >>)
            \/ Contains(Lower(msg), << "c", "o", "n", "n", "e", "c", "t", "i", "o", "n" >>)
         THEN "network"
         ELSE "other"

\* line 53: base_delay * 2 ** (attempt - 1), slept at the top of a retry
RetryDelay(n) == BaseDelay * 2 ^ (n - 1)
\* line 106: 30 + attempt * 10
RateLimitDelay(n) == 30 + n * 10
\* line 120: base_delay * 2
NetworkDelay(n) == BaseDelay * 2

\* lines 105 and 119: `attempt < max_retries`
MayRetry(n) == n < MaxRetries

\* what a provider call can do: text that parses to records, text that does
\* not, or an exception with a message
RateLimitMessages ==
    { << "E", "r", "r", "o", "r", " ", "4", "2", "9" >>,
      << "R", "a", "t", "e", "_", "L", "i", "m", "i", "t" >> }
NetworkMessages ==
    { << "T", "i", "m", "e", "o", "u", "t", "E", "r", "r", "o", "r" >>,
      << "C", "o", "n", "n", "e", "c", "t", "i", "o", "n", " ", "e", "r", "r", "o", "r" >> }
OtherMessages ==
    { << "E", "r", "r", "o", "r", " ", "5", "0", "0" >>, << >> }
CallOutcomes ==
    { [kind |-> "keywords", message |-> << >>], [kind |-> "nothing", message |-> << >>] }
    \cup { [kind |-> "exception", message |-> m] :
             m \in RateLimitMessages \cup NetworkMessages \cup OtherMessages }

\* lines 49-136: one pass of the loop body: the retry delay, the provider call, the
\* parse, and the handling of an exception
Attempt(call) ==
    /\ extracted = "pending"
    /\ attempt <= MaxRetries
    /\ calls' = calls + 1
    /\ last_call' = call
    /\ LET waited == IF attempt > 0 THEN Append(slept, RetryDelay(attempt)) ELSE slept
       IN  CASE call.kind = "keywords" ->
                  /\ extracted' = "KeywordResult"
                  /\ slept' = waited
                  /\ UNCHANGED << attempt, error_message >>
             [] call.kind = "nothing" ->
                  /\ extracted' = "None"
                  /\ slept' = waited
                  /\ UNCHANGED << attempt, error_message >>
             [] OTHER ->
                  /\ error_message' = call.message
                  /\ IF ClassifyError(call.message) = "rate_limit" /\ MayRetry(attempt)
                     THEN /\ slept' = Append(waited, RateLimitDelay(attempt))
                          /\ attempt' = attempt + 1
                          /\ extracted' = extracted
                     ELSE IF ClassifyError(call.message) = "network" /\ MayRetry(attempt)
                     THEN /\ slept' = Append(waited, NetworkDelay(attempt))
                          /\ attempt' = attempt + 1
                          /\ extracted' = extracted
                     ELSE /\ slept' = waited
                          /\ attempt' = attempt
                          /\ extracted' = "None"
    /\ UNCHANGED << schedVars, exclVars, promptVars, attemptVars, lockVars, response,
                    parse_outcome, response_text, keyword_obj, cleaned, reportVars >>

RetryInit ==
    /\ model_infos = << >>
    /\ platforms = {}
    /\ provider_mode = [w \in AllPlatforms |-> "any"]
    /\ InitRun
    /\ InitTracker
    /\ InitParserIdle
    /\ InitRetry
    /\ InitReportIdle

RetryNext == \E call \in CallOutcomes : Attempt(call)

RetrySpec == RetryInit /\ [][RetryNext]_vars

\* ---- single-provider extractor: properties ----
\* another provider call will follow this one
Retries == extracted' = "pending" /\ calls' = calls + 1

\* the last sleep of the step
Backoff == slept'[Len(slept')]

\* what the step leaves besides its backoff: one more retry used, the same
\* delay at the top of the loop, nothing returned
RetryPath ==
    /\ attempt' = attempt + 1
    /\ extracted' = "pending"
    /\ SubSeq(slept', 1, Len(slept') - 1) =
          (IF attempt > 0 THEN Append(slept, BaseDelay * 2 ^ (attempt - 1)) ELSE slept)

\* C39: in extract_keywords a timeout/connection error follows the same retry
\* path as a rate-limit error and differs only in the backoff (6 s instead of
\* 30 + 10 * attempt s): either one triggers another call while fewer than 3
\* retries have been used; no other outcome is retried, and one item gets at
\* most 4 provider calls.
C39_SameRetryPath ==
    /\ [](calls <= 4 /\ attempt <= 3 /\ attempt <= calls)
    /\ [][ calls' = calls + 1 =>
             /\ Retries <=>
                   /\ attempt < 3
                   /\ last_call'.kind = "exception"
                   /\ last_call'.message \in RateLimitMessages \cup NetworkMessages
             /\ (Retries /\ last_call'.message \in RateLimitMessages) =>
                   RetryPath /\ Backoff = 30 + 10 * attempt
             /\ (Retries /\ last_call'.message \in NetworkMessages) =>
                   RetryPath /\ Backoff = 6
             /\ ~Retries => extracted' \in {"None", "KeywordResult"} ]_vars

\* a rate-limit error, then two timeouts, each followed by another call; the
\* fourth call times out as well and nothing is returned
C39_Witness ==
    /\ calls = 4
    /\ extracted = "None"
    /\ slept = << 30, 3, 6, 6, 6, 12 >>
    /\ last_call.kind = "exception"
    /\ last_call.message \in NetworkMessages

\* ---- report stage (src/keyword_extractor.py) ----
\* lines 281-290: the keywords of one result that were not used before, and the
\* used set after them
RECURSIVE FilterUnused(_, _, _)
FilterUnused(keywords, used_keywords, filtered_keywords) ==
    IF keywords = << >> THEN [kept |-> filtered_keywords, used |-> used_keywords]
    ELSE IF Head(keywords).keyword \notin used_keywords
         THEN FilterUnused(Tail(keywords), used_keywords \cup { Head(keywords).keyword },
                           Append(filtered_keywords, Head(keywords)))
         ELSE FilterUnused(Tail(keywords), used_keywords, filtered_keywords)

\* lines 278-300: _csv_deduplicate_keywords; a result left without keywords is
\* not returned
RECURSIVE DedupLoop(_, _, _)
DedupLoop(rs, used_keywords, dedup) ==
    IF rs = << >> THEN dedup
    ELSE LET f == FilterUnused(Head(rs).keywords, used_keywords, << >>)
         IN  DedupLoop(Tail(rs), f.used,
                       IF f.kept # << >>
                       THEN Append(dedup, [model_url |-> Head(rs).model_url,
                                           keywords |-> f.kept])
                       ELSE dedup)
CsvDeduplicateKeywords(rs) == DedupLoop(rs, {}, << >>)

\* a url is kept as its parts between the slashes
\* line 475: model_url.replace('gitcode.com', 'ai.gitcode.com')
AiUrl(url) ==
    [i \in DOMAIN url |->
        CASE url[i] = "gitcode.com" -> "ai.gitcode.com"
          [] url[i] = "ai.gitcode.com" -> "ai.ai.gitcode.com"
          [] OTHER -> url[i]]

\* lines 460-465: the last two parts of a url with at least two slashes
ProjectName(url) ==
    IF Len(url) >= 3 THEN SubSeq(url, Len(url) - 1, Len(url)) ELSE << url[Len(url)] >>

\* lines 467-480: the rows of one result; keywords are compared in lower case
RECURSIVE RowsOf(_, _, _, _)
RowsOf(model_url, keywords, used_keywords_lower, rows) ==
    IF keywords = << >> THEN [rows |-> rows, used |-> used_keywords_lower]
    ELSE IF Lower(Head(keywords).keyword) \notin used_keywords_lower
         THEN RowsOf(model_url, Tail(keywords),
                     used_keywords_lower \cup { Lower(Head(keywords).keyword) },
                     Append(rows, [link |-> AiUrl(model_url),
                                   name |-> ProjectName(model_url),
                                   word |-> Head(keywords).keyword]))
         ELSE RowsOf(model_url, Tail(keywords), used_keywords_lower, rows)

\* lines 455-480: generate_csv_output up to the rows it writes
RECURSIVE CsvLoop(_, _, _)
CsvLoop(rs, used_keywords_lower, rows) ==
    IF rs = << >> THEN rows
    ELSE LET r == RowsOf(Head(rs).model_url, Head(rs).keywords, used_keywords_lower, rows)
         IN  CsvLoop(Tail(rs), r.used, r.rows)
GenerateCsvOutput(rs) == CsvLoop(rs, {}, << >>)

\* the results explored: result k is that of item k, with 1..MaxBatch keywords
\* that differ as the parser leaves them (two may differ in case only)
ReportKeywords == { << "a", "i" >>, << "A", "I" >>, << "l", "l", "m" >> }
ReportUrl(k) == << "https:", "", "gitcode.com", "org", LowerCase[k] >>
ReportKeywordLists ==
    { ks \in UNION { [1..n -> ReportKeywords] : n \in 1..MaxBatch } :
        \A i, j \in DOMAIN ks : i # j => ks[i] # ks[j] }
ReportInputs ==
    UNION { { [k \in 1..n |-> [model_url |-> ReportUrl(k),
                               keywords |-> [i \in DOMAIN lists[k] |->
                                               [keyword |-> lists[k][i]]]]] :
                lists \in [1..n -> ReportKeywordLists] } : n \in 0..MaxItems }

ReportInit ==
    /\ model_infos = << >>
    /\ platforms = {}
    /\ provider_mode = [w \in AllPlatforms |-> "any"]
    /\ InitRun
    /\ InitTracker
    /\ InitParserIdle
    /\ InitRetry
    /\ keyword_results \in ReportInputs
    /\ dedup_results = NotReported
    /\ csv_data = NotReported

\* generate_report, line 314: csv_dedup_results = _csv_deduplicate_keywords(final_results)
CsvDeduplicate ==
    /\ ~dedup_results.called
    /\ dedup_results' = [called |-> TRUE, value |-> CsvDeduplicateKeywords(keyword_results)]
    /\ UNCHANGED << schedVars, exclVars, promptVars, attemptVars, lockVars, response,
                    parse_outcome, response_text, keyword_obj, cleaned, retryVars,
                    keyword_results, csv_data >>

\* generate_report, line 438: generate_csv_output(final_results, csv_file)
GenerateCsv ==
    /\ ~csv_data.called
    /\ csv_data' = [called |-> TRUE, value |-> GenerateCsvOutput(keyword_results)]
    /\ UNCHANGED << schedVars, exclVars, promptVars, attemptVars, lockVars, response,
                    parse_outcome, response_text, keyword_obj, cleaned, retryVars,
                    keyword_results, dedup_results >>

ReportNext == CsvDeduplicate \/ GenerateCsv

ReportSpec == ReportInit /\ [][ReportNext]_vars

\* ---- report stage: properties ----
\* the (item, keyword) pairs of a list of results, in order
RECURSIVE PairsOf(_)
PairsOf(rs) ==
    IF rs = << >> THEN << >>
    ELSE [i \in DOMAIN Head(rs).keywords |->
             [model_url |-> Head(rs).model_url, keyword |-> Head(rs).keywords[i].keyword]]
         \o PairsOf(Tail(rs))

\* the pairs of the input whose keyword did not occur before
FirstOccurrences ==
    LET all == PairsOf(keyword_results)
    IN  SelectSeq([i \in DOMAIN all |-> [pair |-> all[i],
                                         first |-> \A j \in 1..(i - 1) :
                                                      all[j].keyword # all[i].keyword]],
                  LAMBDA e : e.first)

\* C40: the pairs kept by _csv_deduplicate_keywords are exactly the rows written
\* by generate_csv_output, each keyword being kept only at its first occurrence
\* across all results in order.
C40_DedupMatchesCsvRows ==
    (dedup_results.called /\ csv_data.called) =>
        LET pairs == PairsOf(dedup_results.value)
        IN  /\ Len(pairs) = Len(csv_data.value)
            /\ \A i \in DOMAIN pairs :
                  /\ i \in DOMAIN csv_data.value
                  /\ csv_data.value[i].word = pairs[i].keyword
                  /\ csv_data.value[i].link = AiUrl(pairs[i].model_url)
            /\ pairs = [i \in DOMAIN FirstOccurrences |-> FirstOccurrences[i].pair]

=============================================================================
